---------------------------- MODULE Spec2Model ----------------------------
(*************************************************************************)
(* A model of remotestruct's caching layer:                              *)
(*   sparserange.SparseRange  - the boundary-list range algebra          *)
(*   cache.CacheLine / Cache  - the line store with its LRU scan         *)
(*   cache.CachedHandler      - request splitting, policy, write-through *)
(*   remotestruct.FakeHandler - the byte transport underneath            *)
(*                                                                       *)
(* A SparseRange is its _ranges list, a sequence of integers.  Python    *)
(* lists are 0-based: the operators below keep Python's index values and *)
(* add 1 only where a sequence is subscripted.                           *)
(*************************************************************************)
EXTENDS Integers, Sequences, FiniteSets, TLC

(*************************************************************************)
(* Bounds of the model.                                                  *)
(*************************************************************************)
\* linebytes = 2^LineBits
LineBits == 1
\* number of cache sets (CacheLine objects)
Sets == 2
\* byte values are 0..MaxByte
MaxByte == 1
\* longest readBytes size
MaxLen == 3
\* longest writeBytes data
MaxWrite == 3
\* lines of linebytes bytes the transport holds
MemLines == 3
\* the clock stops the model at MaxTime
MaxTime == 4
\* the timeout, in seconds, of the specification with a timeout
TimeoutSecs == 1
\* the boundaries of a SparseRange built step by step are 0..MaxAddr
MaxAddr == 5
\* the boundaries of a SparseRange written as a string are -1..MaxLiteral
MaxLiteral == 11
\* the most split points given to SparseRange.split
MaxPoints == 3

(*************************************************************************)
(* Python built-ins the code relies on.                                  *)
(*************************************************************************)
Min(a, b) == IF a < b THEN a ELSE b
Max(a, b) == IF a > b THEN a ELSE b

\* s[lo:hi] for 0 <= lo, hi (indices past the end are clipped)
PySlice(s, lo, hi) == SubSeq(s, Min(lo, Len(s)) + 1, Min(hi, Len(s)))

\* s[lo:hi] = new  (list and bytearray slice assignment, 0 <= lo, hi; when
\* hi < lo Python inserts at lo)
PySliceAssign(s, lo, hi, new) ==
    LET l == Min(lo, Len(s))
        h == Max(l, Min(hi, Len(s)))
    IN  SubSeq(s, 1, l) \o new \o SubSeq(s, h + 1, Len(s))

\* bytearray(n)
Zeros(n) == [i \in 1..n |-> 0]

RECURSIVE bisect_left_loop(_, _, _, _)
bisect_left_loop(a, x, lo, hi) ==
    IF lo < hi
    THEN LET mid == (lo + hi) \div 2
         IN  IF a[mid + 1] < x
             THEN bisect_left_loop(a, x, mid + 1, hi)
             ELSE bisect_left_loop(a, x, lo, mid)
    ELSE lo

bisect_left(a, x) == bisect_left_loop(a, x, 0, Len(a))

RECURSIVE bisect_right_loop(_, _, _, _)
bisect_right_loop(a, x, lo, hi) ==
    IF lo < hi
    THEN LET mid == (lo + hi) \div 2
         IN  IF x < a[mid + 1]
             THEN bisect_right_loop(a, x, lo, mid)
             ELSE bisect_right_loop(a, x, mid + 1, hi)
    ELSE lo

bisect_right(a, x) == bisect_right_loop(a, x, 0, Len(a))

(*************************************************************************)
(* sparserange.py                                                        *)
(*************************************************************************)
even(x) == x % 2 = 0
odd(x) == x % 2 = 1

\* the value None, where a SparseRange is expected
None == <<-1>>

\* SparseRange.pairs: zip(it, it) over _ranges
pairs(r) == [i \in 1..(Len(r) \div 2) |-> <<r[2 * i - 1], r[2 * i]>>]

\* SparseRange.min / max / span (None is modelled as -1; span of [] is 0)
rmin(r) == IF r = <<>> THEN -1 ELSE r[1]
rmax(r) == IF r = <<>> THEN -1 ELSE r[Len(r)] - 1
span(r) == IF r = <<>> THEN 0 ELSE r[Len(r)] - r[1]

spanningrange(r) == IF r = <<>> THEN <<>> ELSE <<r[1], r[Len(r)]>>

\* the addresses a boundary list denotes (used to state properties only)
Elems(r) == UNION {pairs(r)[i][1] .. (pairs(r)[i][2] - 1) : i \in 1..Len(pairs(r))}

\* n in self
contains(r, n) == odd(bisect_right(r, n))

\* a _contains_pair that looks at start only
contains_start(r, start, stop) == odd(bisect_right(r, start))

contains_pair(r, start, stop) ==
    LET idx == bisect_right(r, start)
    IN  IF even(idx) THEN FALSE ELSE stop <= r[idx + 1]

\* a superset test that always answers yes
issuperset_any(r, val) == TRUE

\* issuperset, val a SparseRange
issuperset(r, val) ==
    \A i \in 1..Len(pairs(val)) : contains_pair(r, pairs(val)[i][1], pairs(val)[i][2])

\* an _addrange that does not look whether stop is the start of a range
addrange_at_apart(r, start, stop, left, right0) ==
    PySliceAssign(r, left, right0,
                  (IF ~odd(left) THEN <<start>> ELSE <<>>) \o
                  (IF ~odd(right0) THEN <<stop>> ELSE <<>>))

\* _addrange once the two bisect_left searches are done
addrange_at(r, start, stop, left, right0) ==
    LET set0 == ~odd(left)
        bump == even(right0) /\ right0 < Len(r) /\ r[right0 + 1] = stop
        right == IF bump THEN right0 + 1 ELSE right0
        set1 == ~odd(right0) /\ ~bump
        new == (IF set0 THEN <<start>> ELSE <<>>) \o
               (IF set1 THEN <<stop>> ELSE <<>>)
    IN  PySliceAssign(r, left, right, new)

\* an _addrange without the validation of its arguments
addrange_unchecked(r, start, stop) ==
    addrange_at(r, start, stop, bisect_left(r, start), bisect_left(r, stop))

addrange(r, start, stop) ==
    IF start >= stop
    THEN r
    ELSE addrange_at(r, start, stop, bisect_left(r, start), bisect_left(r, stop))

\* _delrange once the two bisect_left searches are done
delrange_at(r, start, stop, left0, right0) ==
    IF odd(left0) /\ left0 >= Len(r)
    THEN r
    ELSE LET lbump == odd(left0) /\ r[left0 + 1] = start
             left == IF lbump THEN left0 + 1 ELSE left0
             set0 == odd(left0) /\ ~lbump
             rbump == odd(right0) /\ right0 < Len(r) /\ r[right0 + 1] = stop
             right == IF rbump THEN right0 + 1 ELSE right0
             set1 == odd(right0) /\ ~rbump
             new == (IF set0 THEN <<start>> ELSE <<>>) \o
                    (IF set1 THEN <<stop>> ELSE <<>>)
         IN  PySliceAssign(r, left, right, new)

\* a _delrange that removes everything
delrange_all(r, start, stop) == <<>>

\* a discardrange that takes stop as the last address to remove
delrange_closed(r, start, stop) ==
    IF start >= stop
    THEN r
    ELSE delrange_at(r, start, stop + 1, bisect_left(r, start), bisect_left(r, stop + 1))

delrange(r, start, stop) ==
    IF start >= stop
    THEN r
    ELSE delrange_at(r, start, stop, bisect_left(r, start), bisect_left(r, stop))

RECURSIVE add_pairs(_, _, _)
add_pairs(r, ps, i) ==
    IF i > Len(ps) THEN r ELSE add_pairs(addrange(r, ps[i][1], ps[i][2]), ps, i + 1)

\* a union that adds nothing to a SparseRange that holds something
ior_first(r, rng) == IF r = <<>> THEN rng ELSE r

\* self |= rng   (_add_SparseRange)
ior(r, rng) == IF r = <<>> THEN rng ELSE add_pairs(r, pairs(rng), 1)

RECURSIVE del_pairs(_, _, _)
del_pairs(r, ps, i) ==
    IF i > Len(ps) THEN r ELSE del_pairs(delrange(r, ps[i][1], ps[i][2]), ps, i + 1)

\* a subtraction that takes nothing away
isub_nothing(r, rng) == r

\* self -= rng   (_del_SparseRange)
isub(r, rng) == IF r = <<>> THEN r ELSE del_pairs(r, pairs(rng), 1)

\* the slice _intersect_against cuts out, with its ends clipped
intersect_clip(ranges, start, stop) ==
    IF ranges[1] < start
    THEN IF ranges[Len(ranges)] > stop
         THEN [ranges EXCEPT ![1] = start, ![Len(ranges)] = stop]
         ELSE [ranges EXCEPT ![1] = start]
    ELSE IF ranges[Len(ranges)] > stop
         THEN [ranges EXCEPT ![Len(ranges)] = stop]
         ELSE ranges

\* _intersect_against once bisect_right(start) and bisect_left(stop) are done
intersect_at(r, start, stop, l0, r0) ==
    LET left == IF odd(l0) THEN l0 - 1 ELSE l0
        right == IF even(r0) THEN r0 - 1 ELSE r0
    IN  IF left > right
        THEN <<>>
        ELSE intersect_clip(PySlice(r, left, right + 1), start, stop)

intersect_against(r, start, stop) ==
    intersect_at(r, start, stop, bisect_right(r, start), bisect_left(r, stop))

RECURSIVE and_pairs(_, _, _)
and_pairs(r, ps, i) ==
    IF i > Len(ps)
    THEN <<>>
    ELSE intersect_against(r, ps[i][1], ps[i][2]) \o and_pairs(r, ps, i + 1)

\* an intersection that is always empty
and_nothing(r, val) == <<>>

\* self & val, val a SparseRange
and(r, val) == and_pairs(r, pairs(val), 1)

\* the generator of SparseRange.split: the parts yielded for split points
\* pts[i..], right being what is left of the copy
RECURSIVE split_loop(_, _, _, _)
\* one pass of the loop: left is yielded and taken out of right
split_step(right, left, lastpoint, pts, i) ==
    <<left>> \o split_loop(isub(right, left), lastpoint, pts, i + 1)

split_loop(right, lastpoint, pts, i) ==
    IF i > Len(pts)
    THEN <<right>>
    ELSE split_step(right, intersect_against(right, lastpoint, pts[i]), lastpoint, pts, i)

split(r, spliton) == split_loop(r, rmin(r), spliton, 1)

\* lastpoint = self.min() is None for an empty SparseRange, and
\* range(None, point) raises TypeError at the first split point
split_raises(r, spliton) == r = <<>> /\ spliton # <<>>

\* isdisjoint, val a SparseRange
isdisjoint(r, val) ==
    \A i \in 1..Len(pairs(val)) :
        intersect_against(r, pairs(val)[i][1], pairs(val)[i][2]) = <<>>

(*************************************************************************)
(* Strings are sequences of characters.  str(int), str.split and int(str) *)
(* of Python, then SparseRange.__str__ and the string constructor.       *)
(*************************************************************************)
Digits == <<"0", "1", "2", "3", "4", "5", "6", "7", "8", "9">>

RECURSIVE str_nat(_)
str_nat(n) ==
    IF n < 10 THEN <<Digits[n + 1]>> ELSE str_nat(n \div 10) \o <<Digits[(n % 10) + 1]>>

\* str(n), n an int
str_int(n) == IF n < 0 THEN <<"-">> \o str_nat(-n) ELSE str_nat(n)

\* sep.join(items)
RECURSIVE join(_, _, _)
join(sep, items, i) ==
    IF i > Len(items) THEN <<>>
    ELSE IF i = Len(items) THEN items[i]
    ELSE items[i] \o sep \o join(sep, items, i + 1)

\* text.split(sep), sep one character: the pieces between the separators,
\* one piece (maybe empty) when there is none
RECURSIVE str_split(_, _, _, _)
str_split(text, sep, i, piece) ==
    IF i > Len(text) THEN <<piece>>
    ELSE IF text[i] = sep THEN <<piece>> \o str_split(text, sep, i + 1, <<>>)
    ELSE str_split(text, sep, i + 1, Append(piece, text[i]))

\* text.strip()
RECURSIVE lstrip(_)
lstrip(text) == IF text # <<>> /\ text[1] = " " THEN lstrip(Tail(text)) ELSE text

RECURSIVE rstrip(_)
rstrip(text) ==
    IF text # <<>> /\ text[Len(text)] = " "
    THEN rstrip(SubSeq(text, 1, Len(text) - 1))
    ELSE text

digit(c) == CHOOSE d \in 0..9 : Digits[d + 1] = c

RECURSIVE digits_value(_, _, _)
digits_value(text, i, acc) ==
    IF i > Len(text) THEN acc ELSE digits_value(text, i + 1, 10 * acc + digit(text[i]))

\* int(text) on the digits left once the blanks around them are dropped:
\* ok is FALSE where Python raises ValueError (no digit at all, or a
\* character that is no digit)
int_stripped(t) ==
    IF t = <<>> \/ \E i \in 1..Len(t) : \A d \in 1..10 : Digits[d] # t[i]
    THEN [ok |-> FALSE, val |-> 0]
    ELSE [ok |-> TRUE, val |-> digits_value(t, 1, 0)]

\* int(text), text without a sign
int_str(text) == int_stripped(rstrip(lstrip(text)))

\* transform_range of __str__
transform_range(start, stop) ==
    IF stop - start = 1
    THEN str_int(start)
    ELSE str_int(start) \o <<"-">> \o str_int(stop)

\* SparseRange.__str__
range_str(r) ==
    join(<<",", " ">>,
         [i \in 1..Len(pairs(r)) |-> transform_range(pairs(r)[i][1], pairs(r)[i][2])], 1)

\* one term of the string constructor, its parts being those of
\* term.split('-'): add or addrange on r, or ValueError
term_parts(r, parts, first, second) ==
    IF Len(parts) = 1
    THEN IF first.ok
         THEN [err |-> "", val |-> addrange(r, first.val, first.val + 1)]
         ELSE [err |-> "ValueError", val |-> r]
    ELSE IF Len(parts) = 2
    THEN IF first.ok /\ second.ok
         THEN [err |-> "", val |-> addrange(r, first.val, second.val)]
         ELSE [err |-> "ValueError", val |-> r]
    ELSE [err |-> "ValueError", val |-> r]

term_add(r, parts) ==
    term_parts(r, parts, int_str(parts[1]),
               IF Len(parts) >= 2 THEN int_str(parts[2]) ELSE [ok |-> FALSE, val |-> 0])

\* the loop of the string constructor over args[0].split(',')
RECURSIVE terms_loop(_, _, _)
terms_next(res, terms, i) ==
    IF res.err # "" THEN res ELSE terms_loop(res.val, terms, i + 1)

terms_loop(r, terms, i) ==
    IF i > Len(terms)
    THEN [err |-> "", val |-> r]
    ELSE terms_next(term_add(r, str_split(terms[i], "-", 1, <<>>)), terms, i)

\* SparseRange(text)
from_string(text) == terms_loop(<<>>, str_split(text, ",", 1, <<>>), 1)

(*************************************************************************)
(* The state.                                                            *)
(*************************************************************************)
VARIABLES
    mem,          \* FakeHandler._view: the bytes the transport holds
    reads,        \* FakeHandler.reads
    bytesRead,    \* FakeHandler.bytesRead
    writes,       \* FakeHandler.writes
    bytesWritten, \* FakeHandler.bytesWritten
    sets,         \* Cache._sets: the CacheLine objects, in list order
    lru,          \* Cache._lru, as a 1-based position in sets
    lastmiss,     \* Cache._lastmiss
    hits,         \* Cache.hits
    misses,       \* Cache.misses
    timeouts,     \* Cache.timeouts
    timeout,      \* Cache.timeout
    stats,        \* whether Cache.log counts (stats=True)
    linebytes,    \* CachedHandler.linebytes
    nocache,      \* CachedHandler.nocache
    noprefetch,   \* CachedHandler.noprefetch
    now,          \* the last reading of time()
    last,         \* what the last call was, returned and did
    hist,         \* the calls made so far, where a specification records them
    fin,          \* arguments of the pure function being applied
    fout,         \* and its value
    ctx,          \* the execution contexts inside a call: position and locals
    mutex         \* the callers' lock around readBytes / writeBytes

vars == <<mem, reads, bytesRead, writes, bytesWritten, sets, lru, lastmiss,
          hits, misses, timeouts, timeout, stats, linebytes, nocache,
          noprefetch, now, last, hist, fin, fout, ctx, mutex>>

\* timeout = None: lines never expire
Never == -1

\* the callers use no lock; the lock is free
NoMutex == -1
Free == 0

\* one execution context only: none is ever inside a call when another
\* one starts
Alone == ctx = <<>> /\ mutex = NoMutex

\* the value None where bytes are expected
NoData == <<-1>>

\* a transport whose reads never fail
Reliable == -1

(*************************************************************************)
(* The object state a call works on, threaded through its steps:         *)
(*   the FakeHandler's and the Cache's fields, the clock, the exception  *)
(*   raised so far (err), the transport calls made (tlog), one entry per *)
(*   line-aligned sub-request served (events), and the number of         *)
(*   transport calls that succeed before one raises (fail).              *)
(*************************************************************************)
Obj ==
    [mem |-> mem, reads |-> reads, bytesRead |-> bytesRead, writes |-> writes,
     bytesWritten |-> bytesWritten, sets |-> sets, lru |-> lru,
     lastmiss |-> lastmiss, hits |-> hits, misses |-> misses,
     timeouts |-> timeouts, clock |-> now, err |-> "", tlog |-> <<>>,
     events |-> <<>>, fail |-> Reliable]

(*************************************************************************)
(* remotestruct.FakeHandler                                              *)
(*************************************************************************)
\* a handler's readBytes: it returns the bytes or, when the transport
\* fails, raises
handler_readBytes(h, addr, size) ==
    IF h.fail = 0
    THEN [h |-> [h EXCEPT !.err = "TransportError",
                          !.tlog = Append(@, <<"X", addr, size>>)],
          data |-> NoData]
    ELSE [h |-> [h EXCEPT !.reads = @ + 1, !.bytesRead = @ + size,
                          !.tlog = Append(@, <<"R", addr, size>>),
                          !.fail = IF @ > 0 THEN @ - 1 ELSE @],
          data |-> PySlice(h.mem, addr, addr + size)]

\* a handler's writeBytes: when the transport fails it raises and holds
\* what it held.  _view[addr:end] = data: a ctypes array slice takes only a
\* sequence of its own size
handler_writeBytes(h, addr, data) ==
    IF h.fail = 0
    THEN [h EXCEPT !.err = "TransportError",
                   !.tlog = Append(@, <<"X", addr, Len(data)>>)]
    ELSE IF addr + Len(data) > Len(h.mem)
    THEN [h EXCEPT !.err = "ValueError"]
    ELSE [h EXCEPT !.mem = PySliceAssign(@, addr, addr + Len(data), data),
                   !.writes = @ + 1, !.bytesWritten = @ + Len(data),
                   !.tlog = Append(@, <<"W", addr, data>>),
                   !.fail = IF @ > 0 THEN @ - 1 ELSE @]

(*************************************************************************)
(* cache.CacheLine                                                       *)
(*************************************************************************)
CacheLine(lb) == [data |-> Zeros(lb), lastread |-> 0, lastupdate |-> 0, range |-> <<>>]

line_invalidate(line) == [line EXCEPT !.range = <<>>]

\* a line that never serves a request
line_deaf(line, request) == FALSE

line_hit(line, request) == issuperset(line.range, request)

\* an offset that is always the start of the buffer
line_offset_zero(line, rng) == 0

line_offset(line, rng) == rmin(rng) - rmin(line.range)

\* CacheLine.update, after its assertion
line_update(line, rng, data, t) ==
    [data |-> data, lastread |-> t, lastupdate |-> t, range |-> rng]

\* a CacheLine.write that inserts the data instead of replacing bytes
line_write_insert(line, rng, data) ==
    [line EXCEPT !.data = PySliceAssign(@, line_offset(line, rng),
                                        line_offset(line, rng), data)]

\* CacheLine.write, after its assertion
line_write(line, rng, data) ==
    LET offset == line_offset(line, rng)
    IN  [line EXCEPT !.data = PySliceAssign(@, offset, offset + Len(data), data)]

\* the bytes CacheLine.read returns
line_read_data(line, rng) ==
    LET offset == line_offset(line, rng)
    IN  PySlice(line.data, offset, offset + span(rng))

(*************************************************************************)
(* cache.Cache                                                           *)
(*************************************************************************)
\* the comparison turned round: the scan would settle on the newest line
newer(line, cand) == line.lastread > cand.lastread

\* the comparison that moves _lru during the scan
older(line, cand) == line.lastread < cand.lastread

\* whether a line that hits has expired
expired(line, t) == timeout # Never /\ t > line.lastupdate + timeout

\* the for loop of Cache.search from line i on; kind is "hit" or the
\* exception raised
RECURSIVE search_loop(_, _, _, _, _)
search_loop(ls, rng, cand, i, t) ==
    IF i > Len(ls)
    THEN [kind |-> "CacheMiss", line |-> 0, lru |-> cand]
    ELSE IF line_hit(ls[i], rng)
         THEN IF expired(ls[i], t)
              THEN [kind |-> "CacheTimeout", line |-> 0, lru |-> i]
              ELSE [kind |-> "hit", line |-> i, lru |-> cand]
         ELSE search_loop(ls, rng, IF older(ls[i], ls[cand]) THEN i ELSE cand, i + 1, t)

\* a search that scans the lines whatever the timeout is
search_scanning(h, rng) == search_loop(h.sets, rng, h.lru, 1, h.clock)

\* a search that leaves _lru where it was
search_unmoved(h, rng) ==
    [search_loop(h.sets, rng, h.lru, 1, h.clock) EXCEPT !.lru = h.lru]

search(h, rng) ==
    IF timeout = 0
    THEN [kind |-> "CacheMiss", line |-> 0, lru |-> h.lru]
    ELSE search_loop(h.sets, rng, h.lru, 1, h.clock)

\* a log that counts every outcome as a hit
log_hits(h, key) == IF stats THEN [h EXCEPT !.hits = @ + 1] ELSE h

\* Cache.log
log(h, key) ==
    IF ~stats THEN h
    ELSE IF key = "hits" THEN [h EXCEPT !.hits = @ + 1]
    ELSE IF key = "misses" THEN [h EXCEPT !.misses = @ + 1]
    ELSE [h EXCEPT !.timeouts = @ + 1]

\* Cache.read once search has answered with s
cache_read_on(h, rng, s) ==
    IF s.kind = "hit"
    THEN [h |-> [log(h, "hits") EXCEPT !.lru = s.lru,
                                       !.sets[s.line].lastread = h.clock],
          data |-> line_read_data(h.sets[s.line], rng),
          kind |-> "hit", line |-> s.line]
    ELSE [h |-> [log(h, IF s.kind = "CacheMiss" THEN "misses" ELSE "timeouts")
                    EXCEPT !.lru = s.lru, !.lastmiss = rng],
          data |-> NoData, kind |-> s.kind, line |-> 0]

\* a CacheLine.read that leaves lastread alone
restore_lastread(h, cr) ==
    IF cr.kind = "hit"
    THEN [cr EXCEPT !.h.sets[cr.line].lastread = h.sets[cr.line].lastread]
    ELSE cr

\* Cache.read with that CacheLine.read
cache_read_unstamped(h, rng) == restore_lastread(h, cache_read_on(h, rng, search(h, rng)))

cache_read(h, rng) == cache_read_on(h, rng, search(h, rng))

\* Cache.update filling the last line whatever _lru says
cache_update_last(h, rng, data) ==
    [h EXCEPT !.lru = Len(h.sets), !.lastmiss = None,
              !.sets[Len(h.sets)] = line_update(@, rng, data, h.clock)]

\* assert rng >= self._lastmiss: comparing with None raises TypeError
cache_update(h, rng, data) ==
    IF h.lastmiss = None
    THEN [h EXCEPT !.err = "TypeError"]
    ELSE IF ~issuperset(rng, h.lastmiss)
    THEN [h EXCEPT !.err = "AssertionError"]
    ELSE LET line == h.lru
             h1 == [h EXCEPT !.lru = Len(h.sets), !.lastmiss = None]
         IN  IF span(rng) # Len(data)
             THEN [h1 EXCEPT !.err = "AssertionError"]
             ELSE [h1 EXCEPT !.sets[line] = line_update(@, rng, data, h.clock)]

\* Cache.write that never touches a line
cache_write_skip(h, rng, data) == h

\* Cache.write once search has answered with s
cache_write_on(h, rng, data, s) ==
    IF s.kind # "hit"
    THEN [h EXCEPT !.lru = s.lru]
    ELSE IF span(rng) # Len(data)
    THEN [h EXCEPT !.lru = s.lru, !.err = "AssertionError"]
    ELSE [h EXCEPT !.lru = s.lru, !.sets[s.line] = line_write(@, rng, data)]

cache_write(h, rng, data) == cache_write_on(h, rng, data, search(h, rng))

\* an invalidate that leaves the lines as they are
cache_invalidate_kept(ls) == ls

cache_invalidate(ls) == [i \in 1..Len(ls) |-> line_invalidate(ls[i])]

(*************************************************************************)
(* cache.CachedHandler                                                   *)
(*************************************************************************)
\* int.bit_length(): the bits of the absolute value, 0 for 0
RECURSIVE bit_length(_)
bit_length(n) ==
    IF n = 0 THEN 0
    ELSE IF n < 0 THEN bit_length(-n)
    ELSE 1 + bit_length(n \div 2)

\* a test that lets every even number through
ispow2_even(lb) == lb = 1 \/ lb % 2 = 0

\* 2**(linebytes.bit_length() - 1) == linebytes; for 0 the left side is
\* 2**-1 = 0.5, which no integer equals
ispow2(lb) ==
    IF bit_length(lb) = 0 THEN FALSE ELSE 2 ^ (bit_length(lb) - 1) = lb

\* (val + lb - 1) & -lb and val & -lb; linebytes is a power of two, so
\* "& -lb" clears the bits below it
\* no rounding at all
rounddown_none(val) == val

rounddowntoline(val) == val - (val % linebytes)
rounduptoline(val) == rounddowntoline(val + linebytes - 1)

\* range(low, high, step) as a sequence
pyrange(low, high, step) ==
    [i \in 1..(IF high > low THEN (high - low + step - 1) \div step ELSE 0) |->
        low + (i - 1) * step]

nonempty(r) == r # <<>>

\* the split points _split_cachelines hands to split
splitpoints(full) ==
    pyrange(rounduptoline(rmin(full)), rounduptoline(rmax(full)), linebytes)

split_cachelines(addr, size) ==
    LET full == addrange(<<>>, addr, addr + size)
    IN  SelectSeq(split(full, splitpoints(full)), nonempty)

\* "for reg in desired.subranges(): if reg.isdisjoint(needed): desired -= reg"
\* The iterator walks desired._ranges by position k while -= edits that
\* same list in place.
RECURSIVE prune_loop(_, _, _)
\* a loop that drops no run of desired
prune_step_keep(desired, needed, k, reg) == prune_loop(desired, needed, k + 2)

prune_step(desired, needed, k, reg) ==
    IF isdisjoint(reg, needed)
    THEN prune_loop(isub(desired, reg), needed, k + 2)
    ELSE prune_loop(desired, needed, k + 2)

prune_loop(desired, needed, k) ==
    IF k + 1 >= Len(desired)
    THEN desired
    ELSE prune_step(desired, needed, k, addrange(<<>>, desired[k + 1], desired[k + 2]))

\* the contiguous reads of _read_safely into target
RECURSIVE read_pairs(_, _, _, _, _)
read_pairs(h, ps, i, target, baseoffset) ==
    IF i > Len(ps) \/ h.err # ""
    THEN [h |-> h, target |-> target]
    ELSE LET offset == ps[i][1] - baseoffset
             tr == handler_readBytes(h, ps[i][1], ps[i][2] - ps[i][1])
         IN  read_pairs(tr.h, ps, i + 1,
                        PySliceAssign(target, offset, offset + Len(tr.data), tr.data),
                        baseoffset)

\* _read_safely from "if target is None" on, desired being what the
\* pruning left
read_safely_ranges(h, needed, desired, target, targetoffset) ==
    IF target # NoData /\ ~(Len(target) - targetoffset >= span(desired))
    THEN [h |-> [h EXCEPT !.err = "AssertionError"], ret |-> NoData,
          desired |-> desired, target |-> target]
    ELSE LET rr == read_pairs(h, pairs(desired), 1,
                              IF target = NoData THEN Zeros(span(desired)) ELSE target,
                              rmin(desired) - targetoffset)
         IN  [h |-> rr.h, ret |-> rr.target, desired |-> desired, target |-> rr.target]

\* a _read_safely that fetches all of desired, whatever noprefetch holds
read_safely_blind(h, needed, desired0, target, targetoffset) ==
    read_safely_ranges(h, needed, ior(desired0, needed), target, targetoffset)

\* a _read_safely whose caller keeps the range it passed: "desired -= ..."
\* taken as if it worked on a copy
read_safely_copy(h, needed, desired0, target, targetoffset) ==
    IF needed = desired0
    THEN LET tr == handler_readBytes(h, rmin(needed), span(needed))
         IN  [h |-> tr.h, ret |-> tr.data, desired |-> desired0,
              target |-> IF target = NoData
                         THEN NoData
                         ELSE PySliceAssign(target, targetoffset,
                                            targetoffset + Len(tr.data), tr.data)]
    ELSE [read_safely_ranges(h, needed,
                             prune_loop(ior(isub(desired0, noprefetch), needed), needed, 0),
                             target, targetoffset) EXCEPT !.desired = desired0]

\* _read_safely: ret is the value returned, target the caller's buffer
\* afterwards (NoData when none was passed), desired the range as modified
read_safely(h, needed, desired0, target, targetoffset) ==
    IF needed = desired0
    THEN LET tr == handler_readBytes(h, rmin(needed), span(needed))
         IN  [h |-> tr.h, ret |-> tr.data, desired |-> desired0,
              target |-> IF target = NoData
                         THEN NoData
                         ELSE PySliceAssign(target, targetoffset,
                                            targetoffset + Len(tr.data), tr.data)]
    ELSE read_safely_ranges(h, needed,
                            prune_loop(ior(isub(desired0, noprefetch), needed), needed, 0),
                            target, targetoffset)

\* "if not data": None and an empty bytearray are both false
falsy(data) == data = NoData \/ data = <<>>

\* the lines that cover request when a sub-request looks for it, each with
\* its age since lastupdate
ages(h, request) ==
    {<<i, h.clock - h.sets[i].lastupdate>> :
        i \in {j \in 1..Len(h.sets) : line_hit(h.sets[j], request)}}

\* what became of one sub-request: how it was served, the line (slot) that
\* served or received it, the range that line held before, and the ages
\* of the lines that covered it
Event(request, kind, slot, old, covering) ==
    [req |-> request, kind |-> kind, slot |-> slot, old |-> old, ages |-> covering]

\* the miss branch of readBytes after cache.update: line.read(request)
read_miss_line(h, request, kind, slot, up) ==
    IF up.err # ""
    THEN [h |-> up, data |-> NoData]
    ELSE [h |-> [up EXCEPT !.sets[slot].lastread = up.clock,
                           !.events = Append(@, Event(request, kind, slot,
                                                      h.sets[slot].range,
                                                      ages(h, request)))],
          data |-> line_read_data(up.sets[slot], request)]

\* a miss branch that fills the line whether or not the fetch succeeded
read_miss_fill_anyway(h, request, kind, rs) ==
    read_miss_line(h, request, kind, rs.h.lru,
                   cache_update(rs.h, rs.desired, Zeros(span(rs.desired))))

\* the miss branch of readBytes after _read_safely has returned rs
read_miss_fill(h, request, kind, rs) ==
    IF rs.h.err # ""
    THEN [h |-> rs.h, data |-> NoData]
    ELSE read_miss_line(h, request, kind, rs.h.lru,
                        cache_update(rs.h, rs.desired, rs.ret))

\* the miss branch of readBytes: fetch the line, update, read from it
read_miss(h, request, kind) ==
    read_miss_fill(h, request, kind,
                   read_safely(h, request,
                               addrange(<<>>, rounddowntoline(rmin(request)),
                                        rounddowntoline(rmin(request)) + linebytes),
                               NoData, 0))

\* readBytes where the cache gave data but part of the request is in
\* nocache: that part is read again into data
read_refresh(rs, ev) ==
    IF rs.h.err # ""
    THEN [h |-> rs.h, data |-> NoData]
    ELSE [h |-> [rs.h EXCEPT !.events = Append(@, ev)], data |-> rs.target]

\* readBytes after cache.read has returned cr
read_cached(h, request, uncacheable, cr) ==
    IF falsy(cr.data)
    THEN read_miss(cr.h, request, IF cr.kind = "hit" THEN "empty" ELSE cr.kind)
    ELSE IF uncacheable # <<>>
    THEN read_refresh(read_safely(cr.h, uncacheable, spanningrange(uncacheable),
                                  cr.data, rmin(uncacheable) - rmin(request)),
                      Event(request, "hit", cr.line, <<>>, ages(h, request)))
    ELSE [h |-> [cr.h EXCEPT !.events = Append(@, Event(request, "hit", cr.line, <<>>,
                                                        ages(h, request)))],
          data |-> cr.data]

\* a loop body that asks the cache even for a request wholly in nocache
read_policy_cached(h, request, uncacheable) ==
    read_cached(h, request, uncacheable, cache_read(h, request))

\* the body of the for loop of readBytes once request & self.nocache is
\* known
read_policy(h, request, uncacheable) ==
    IF request = uncacheable
    THEN LET tr == handler_readBytes(h, rmin(request), span(request))
         IN  [h |-> [tr.h EXCEPT !.events = IF tr.h.err # "" THEN @
                                            ELSE Append(@, Event(request, "direct", 0,
                                                                 <<>>, {}))],
              data |-> tr.data]
    ELSE read_cached(h, request, uncacheable, cache_read(h, request))

\* the body of the for loop of readBytes, for one request; each pass
\* reads the clock later than the one before
read_request(h0, request) ==
    read_policy([h0 EXCEPT !.clock = @ + 1], request, and(request, nocache))

RECURSIVE read_loop(_, _, _, _)
\* results.append(data), and on to the next request
read_next(r, reqs, i, results) ==
    read_loop(r.h, reqs, i + 1, IF r.h.err # "" THEN results ELSE results \o r.data)

read_loop(h, reqs, i, results) ==
    IF i > Len(reqs) \/ h.err # ""
    THEN [h |-> h, data |-> IF h.err # "" THEN NoData ELSE results]
    ELSE read_next(read_request(h, reqs[i]), reqs, i, results)

readBytes(h, addr, size) == read_loop(h, split_cachelines(addr, size), 1, <<>>)

\* the slice of data writeBytes takes for a request: start is set to 0
\* before the loop and is not advanced in it
write_slice(data, start, request) == PySlice(data, start, start + span(request))

RECURSIVE write_loop(_, _, _, _, _)
\* self.handler.writeBytes(request.min(), d), cw being the state
\* cache.write left
write_through(cw, request, d) ==
    IF cw.err # "" THEN cw ELSE handler_writeBytes(cw, rmin(request), d)

write_loop(h, reqs, i, data, start) ==
    IF i > Len(reqs) \/ h.err # ""
    THEN h
    ELSE LET d == write_slice(data, start, reqs[i])
         IN  write_loop(write_through(cache_write([h EXCEPT !.clock = @ + 1], reqs[i], d),
                                      reqs[i], d),
                        reqs, i + 1, data, start)

writeBytes(h, addr, data) == write_loop(h, split_cachelines(addr, Len(data)), 1, data, 0)

(*************************************************************************)
(* Construction and the calls, as actions.                               *)
(*************************************************************************)
Byte == 0..MaxByte

LineBytes == 2 ^ LineBits

\* the transport's initial contents: nlines lines of lb bytes
InitMem(lb, nlines) ==
    [i \in 1..(lb * nlines) |-> ((i - 1) + (i - 1) \div lb) % (MaxByte + 1)]

\* CachedHandler.stats() with the transport's read count
Counters == [hits |-> hits, misses |-> misses, timeouts |-> timeouts, reads |-> reads]

\* CachedHandler(FakeHandler(...), sets=nsets, linebytes=lb, timeout=tmo),
\* for lb a power of two
Construct(lb, nsets, nlines, tmo) ==
    /\ ispow2(lb)
    /\ mem = InitMem(lb, nlines)
    /\ reads = 0 /\ bytesRead = 0 /\ writes = 0 /\ bytesWritten = 0
    /\ sets = [i \in 1..nsets |-> CacheLine(lb)]
    /\ lru = nsets
    /\ lastmiss = <<>>
    /\ hits = 0 /\ misses = 0 /\ timeouts = 0
    /\ timeout = tmo
    /\ stats = TRUE
    /\ linebytes = lb
    /\ nocache = <<>> /\ noprefetch = <<>>
    /\ now = 0
    /\ last = [op |-> "init", addr |-> 0, size |-> 0, data |-> <<>>, ret |-> <<>>,
               err |-> "", tlog |-> <<>>, events |-> <<>>, again |-> FALSE,
               covered |-> FALSE, written |-> NoData, before |-> Counters,
               dumped |-> FALSE]
    /\ hist = <<>>

\* the fields a call leaves behind
Store(h) ==
    /\ mem' = h.mem
    /\ reads' = h.reads /\ bytesRead' = h.bytesRead
    /\ writes' = h.writes /\ bytesWritten' = h.bytesWritten
    /\ sets' = h.sets /\ lru' = h.lru /\ lastmiss' = h.lastmiss
    /\ hits' = h.hits /\ misses' = h.misses /\ timeouts' = h.timeouts
    /\ now' = h.clock

Config == <<timeout, stats, linebytes, nocache, noprefetch>>

\* whether one line holds all of [addr, addr+size)
Covered(addr, size) ==
    \E i \in 1..Len(sets) : line_hit(sets[i], addrange(<<>>, addr, addr + size))

Addrs == 0..(Len(mem) - 1)

\* readBytes(addr, size) on the object obj, while the clock is before limit
ReadFrom(obj, addr, size, limit) ==
    /\ addr + size <= Len(mem)
    /\ now < limit
    /\ \E r \in {readBytes(obj, addr, size)} :
           /\ r.h.clock <= limit
           /\ Store(r.h)
           /\ last' = [op |-> "read", addr |-> addr, size |-> size, data |-> <<>>,
                       ret |-> r.data, err |-> r.h.err, tlog |-> r.h.tlog,
                       events |-> r.h.events,
                       again |-> last.op = "read" /\ last.addr = addr /\ last.size = size,
                       covered |-> Covered(addr, size),
                       written |-> IF /\ last.op = "write" /\ last.err = ""
                                      /\ last.addr = addr /\ last.size = size
                                      /\ last.covered
                                   THEN last.data
                                   ELSE NoData,
                       before |-> Counters, dumped |-> last.op = "invalidate"]
    /\ UNCHANGED <<Config, fin, fout, ctx, mutex>>

\* readBytes(addr, size) over a transport that does not fail
ReadBytes(addr, size, limit) == ReadFrom(Obj, addr, size, limit)

\* writeBytes(addr, data) on the object obj, while the clock is before
\* limit
WriteTo(obj, addr, data, limit) ==
    /\ addr + Len(data) <= Len(mem)
    /\ now < limit
    /\ \E h \in {writeBytes(obj, addr, data)} :
           /\ h.clock <= limit
           /\ Store(h)
           /\ last' = [op |-> "write", addr |-> addr, size |-> Len(data),
                       data |-> data, ret |-> <<>>, err |-> h.err,
                       tlog |-> h.tlog, events |-> <<>>, again |-> FALSE,
                       covered |-> Covered(addr, Len(data)), written |-> NoData,
                       before |-> Counters, dumped |-> last.op = "invalidate"]
    /\ UNCHANGED <<Config, fin, fout, ctx, mutex>>

\* writeBytes(addr, data) over a transport that does not fail
WriteBytes(addr, data, limit) == WriteTo(Obj, addr, data, limit)

\* d seconds pass between two calls
Sleep(d, limit) ==
    /\ now + d <= limit
    /\ now' = now + d
    /\ UNCHANGED <<mem, reads, bytesRead, writes, bytesWritten, sets, lru, lastmiss,
                   hits, misses, timeouts, Config, last, hist, fin, fout, ctx, mutex>>

\* the ranges the lines hold, in list order
Cached(ls) == [i \in 1..Len(ls) |-> ls[i].range]

\* a call as hist records it: what it asked, what became of its
\* sub-requests and what the lines held once it returned
Record ==
    hist' = Append(hist, [addr |-> last'.addr, size |-> last'.size,
                          events |-> last'.events, tlog |-> last'.tlog,
                          cached |-> Cached(sets')])

\* the data written: n bytes counting up from b
Ramp(b, n) == [i \in 1..n |-> (b + i - 1) % (MaxByte + 1)]

Datas == {Ramp(b, n) : b \in Byte, n \in 1..MaxWrite}

(*************************************************************************)
(* Spec: reads and writes of any range, timeout = None.                  *)
(*************************************************************************)
Init == Construct(LineBytes, Sets, MemLines, Never) /\ fin = <<>> /\ fout = <<>> /\ Alone

Read ==
    /\ \E addr \in Addrs, size \in 1..MaxLen : ReadBytes(addr, size, MaxTime)
    /\ UNCHANGED hist

Write ==
    /\ \E addr \in Addrs, data \in Datas : WriteBytes(addr, data, MaxTime)
    /\ UNCHANGED hist

Next == Read \/ Write

Spec == Init /\ [][Next]_vars

(*************************************************************************)
(* SpecLRU: reads that stay below one line in size, recorded, over more  *)
(* lines than the cache has sets.                                        *)
(*************************************************************************)
LruLines == 2 * Sets - 1
LruTime == 2 * Sets + 1

InitLRU == Construct(LineBytes, Sets, LruLines, Never) /\ fin = <<>> /\ fout = <<>> /\ Alone

NextLRU ==
    /\ \E addr \in Addrs, size \in 1..linebytes : ReadBytes(addr, size, LruTime)
    /\ Record

SpecLRU == InitLRU /\ [][NextLRU]_vars

(*************************************************************************)
(* SpecScenario: linebytes=32, sets=2, and the reads [0,4), [16,20) and  *)
(* [100,104) in any order.                                               *)
(*************************************************************************)
InitScenario == Construct(32, 2, 4, Never) /\ fin = <<>> /\ fout = <<>> /\ Alone

NextScenario ==
    /\ \E addr \in {0, 16, 100} : ReadBytes(addr, 4, 4)
    /\ Record

SpecScenario == InitScenario /\ [][NextScenario]_vars

(*************************************************************************)
(* SpecSplit: _split_cachelines applied to one request.                  *)
(*************************************************************************)
InitSplit ==
    /\ \E k \in 0..(LineBits + 1) : Construct(2 ^ k, Sets, MemLines, Never)
    /\ fin \in {<<addr, size>> : addr \in 0..(3 * LineBytes), size \in 1..(3 * LineBytes)}
    /\ fout = <<>>
    /\ Alone

NextSplit ==
    /\ fout = <<>>
    /\ fout' = split_cachelines(fin[1], fin[2])
    /\ UNCHANGED <<mem, reads, bytesRead, writes, bytesWritten, sets, lru, lastmiss,
                   hits, misses, timeouts, timeout, stats, linebytes, nocache,
                   noprefetch, now, last, hist, fin, ctx, mutex>>

SpecSplit == InitSplit /\ [][NextSplit]_vars

(*************************************************************************)
(* SpecTimeout: timeout = TimeoutSecs, reads of up to one line in size   *)
(* and time passing between the calls.                                   *)
(*************************************************************************)
InitTimeout ==
    Construct(LineBytes, Sets, MemLines, TimeoutSecs) /\ fin = <<>> /\ fout = <<>> /\ Alone

ReadTimed ==
    /\ \E addr \in Addrs, size \in 1..linebytes : ReadBytes(addr, size, MaxTime)
    /\ UNCHANGED hist

Wait == \E d \in 1..(timeout + 1) : Sleep(d, MaxTime)

NextTimeout == ReadTimed \/ Wait

SpecTimeout == InitTimeout /\ [][NextTimeout]_vars

(*************************************************************************)
(* SpecPolicy: lines of 2 * LineBytes bytes; the owner adds ranges to    *)
(* nocache and noprefetch, the target changes bytes by itself, and any   *)
(* range is read.                                                        *)
(*************************************************************************)
\* lines the transport holds, and sub-requests served, under SpecPolicy
PolicyLines == MemLines - 1
PolicyTime == Sets

\* what an action that is not a call leaves in last
Owner(op) ==
    last' = [op |-> op, addr |-> 0, size |-> 0, data |-> <<>>, ret |-> <<>>,
             err |-> "", tlog |-> <<>>, events |-> <<>>, again |-> FALSE,
             covered |-> FALSE, written |-> NoData, before |-> Counters,
             dumped |-> FALSE]

InitPolicy ==
    Construct(2 * LineBytes, Sets, PolicyLines, Never) /\ fin = <<>> /\ fout = <<>> /\ Alone

\* ch.nocache.addrange(start, stop)
NoCache ==
    /\ Len(nocache) < 4
    /\ \E start \in 0..linebytes, stop \in 1..(linebytes + 1) :
           /\ start < stop /\ stop <= start + (IF nocache = <<>> THEN 2 ELSE 1)
           /\ nocache' = addrange(nocache, start, stop)
    /\ Owner("nocache")
    /\ UNCHANGED <<mem, reads, bytesRead, writes, bytesWritten, sets, lru, lastmiss,
                   hits, misses, timeouts, timeout, stats, linebytes, noprefetch,
                   now, hist, fin, fout, ctx, mutex>>

\* ch.noprefetch.addrange(start, stop), before the first read
NoPrefetch ==
    /\ noprefetch = <<>> /\ now = 0
    /\ \E start \in 0..linebytes, stop \in 1..(linebytes + 1) :
           /\ stop = start + 1
           /\ noprefetch' = addrange(noprefetch, start, stop)
    /\ Owner("noprefetch")
    /\ UNCHANGED <<mem, reads, bytesRead, writes, bytesWritten, sets, lru, lastmiss,
                   hits, misses, timeouts, timeout, stats, linebytes, nocache,
                   now, hist, fin, fout, ctx, mutex>>

\* the target changes the bytes the owner declared volatile, once
Poke ==
    /\ Elems(nocache) \cap Addrs # {}
    /\ mem = InitMem(linebytes, PolicyLines)
    /\ mem' = [i \in 1..Len(mem) |->
                  IF (i - 1) \in Elems(nocache) THEN (mem[i] + 1) % (MaxByte + 1) ELSE mem[i]]
    /\ Owner("poke")
    /\ UNCHANGED <<reads, bytesRead, writes, bytesWritten, sets, lru, lastmiss,
                   hits, misses, timeouts, Config, now, hist, fin, fout, ctx, mutex>>

ReadPolicy ==
    /\ \E addr \in 0..linebytes, size \in 1..MaxLen : ReadBytes(addr, size, PolicyTime)
    /\ UNCHANGED hist

NextPolicy == NoCache \/ NoPrefetch \/ Poke \/ ReadPolicy

SpecPolicy == InitPolicy /\ [][NextPolicy]_vars

(*************************************************************************)
(* The runtime controls of a CachedHandler, as actions.                  *)
(*************************************************************************)
\* ch.timeout = val
SetTimeout(val) ==
    /\ timeout # val
    /\ timeout' = val
    /\ Owner("timeout")
    /\ UNCHANGED <<mem, reads, bytesRead, writes, bytesWritten, sets, lru, lastmiss,
                   hits, misses, timeouts, stats, linebytes, nocache, noprefetch,
                   now, fin, fout, ctx, mutex>>

\* ch.invalidate()
Invalidate ==
    /\ sets' = cache_invalidate(sets)
    /\ lru' = Len(sets)
    /\ lastmiss' = <<>>
    /\ Owner("invalidate")
    /\ UNCHANGED <<mem, reads, bytesRead, writes, bytesWritten, hits, misses,
                   timeouts, Config, now, fin, fout, ctx, mutex>>

\* ch.clearstats()
ClearStats ==
    /\ hits' = 0 /\ misses' = 0 /\ timeouts' = 0
    /\ Owner("clearstats")
    /\ UNCHANGED <<mem, reads, bytesRead, writes, bytesWritten, sets, lru, lastmiss,
                   Config, now, fin, fout, ctx, mutex>>

(*************************************************************************)
(* SpecDisabled: reads of any range while the owner switches the timeout *)
(* between None and 0.                                                   *)
(*************************************************************************)
DisabledTime == Sets + 1

InitDisabled == Construct(LineBytes, Sets, MemLines, Never) /\ fin = <<>> /\ fout = <<>> /\ Alone

ReadDisabled ==
    /\ \E addr \in Addrs, size \in 1..MaxLen : ReadBytes(addr, size, DisabledTime)
    /\ UNCHANGED hist

Switch == (\E val \in {0, Never} : SetTimeout(val)) /\ UNCHANGED hist

NextDisabled == ReadDisabled \/ Switch

SpecDisabled == InitDisabled /\ [][NextDisabled]_vars

(*************************************************************************)
(* SpecInvalidate: timeout = TimeoutSecs; recorded reads of any range,   *)
(* time passing, and invalidate() at any moment.                         *)
(*************************************************************************)
InitInvalidate ==
    Construct(LineBytes, Sets, MemLines, TimeoutSecs) /\ fin = <<>> /\ fout = <<>> /\ Alone

\* reads are served until the clock reads InvalidateTime
InvalidateTime == Sets + 1

ReadInvalidate ==
    /\ \E addr \in Addrs, size \in 1..MaxLen : ReadBytes(addr, size, InvalidateTime)
    /\ Record

Dump == Invalidate /\ UNCHANGED hist

Elapse == \E d \in 1..(timeout + 1) : Sleep(d, InvalidateTime)

NextInvalidate == ReadInvalidate \/ Elapse \/ Dump

SpecInvalidate == InitInvalidate /\ [][NextInvalidate]_vars

(*************************************************************************)
(* SpecStats: timeout = TimeoutSecs and one address in nocache; reads,   *)
(* writes, time passing, invalidate() and clearstats().  hist holds the  *)
(* reads made since the statistics were last cleared.                    *)
(*************************************************************************)
StatsTime == Sets + 1

InitStats ==
    Construct(LineBytes, Sets, MemLines, TimeoutSecs) /\ fin = <<>> /\ fout = <<>> /\ Alone

\* ch.nocache.add(0), before the first call
Volatile ==
    /\ nocache = <<>> /\ now = 0
    /\ nocache' = addrange(nocache, 0, 1)
    /\ Owner("nocache")
    /\ UNCHANGED <<mem, reads, bytesRead, writes, bytesWritten, sets, lru, lastmiss,
                   hits, misses, timeouts, timeout, stats, linebytes, noprefetch,
                   now, hist, fin, fout, ctx, mutex>>

ReadStats ==
    /\ \E addr \in Addrs, size \in 1..MaxLen : ReadBytes(addr, size, StatsTime)
    /\ Record

WriteStats ==
    /\ \E addr \in Addrs, n \in 1..MaxWrite : WriteBytes(addr, Ramp(0, n), StatsTime)
    /\ UNCHANGED hist

Pause == (\E d \in 1..(timeout + 1) : Sleep(d, StatsTime))

Forget == Invalidate /\ UNCHANGED hist

Reset == ClearStats /\ hist' = <<>>

NextStats == Volatile \/ ReadStats \/ WriteStats \/ Pause \/ Forget \/ Reset

SpecStats == InitStats /\ [][NextStats]_vars

(*************************************************************************)
(* SpecConstruct: CachedHandler(handler, sets, linebytes) for any        *)
(* integer linebytes; fin holds the arguments, fout what came of it.     *)
(*************************************************************************)
\* linebytes is tried from -MaxLineBytes to MaxLineBytes
MaxLineBytes == 2 ^ (LineBits + 5)

\* the fields before __init__ has assigned them
Unbuilt ==
    /\ mem = InitMem(LineBytes, MemLines)
    /\ reads = 0 /\ bytesRead = 0 /\ writes = 0 /\ bytesWritten = 0
    /\ sets = <<>> /\ lru = 0 /\ lastmiss = <<>>
    /\ hits = 0 /\ misses = 0 /\ timeouts = 0
    /\ timeout = Never /\ stats = TRUE /\ linebytes = 0
    /\ nocache = <<>> /\ noprefetch = <<>>
    /\ now = 0
    /\ last = [op |-> "init", addr |-> 0, size |-> 0, data |-> <<>>, ret |-> <<>>,
               err |-> "", tlog |-> <<>>, events |-> <<>>, again |-> FALSE,
               covered |-> FALSE, written |-> NoData, before |-> Counters,
               dumped |-> FALSE]
    /\ hist = <<>>

InitConstruct ==
    /\ Unbuilt
    /\ fin \in {<<lb, n>> : lb \in (-MaxLineBytes)..MaxLineBytes, n \in 1..Sets}
    /\ fout = <<>>
    /\ Alone

\* CachedHandler.__init__(handler, sets=fin[2], linebytes=fin[1])
New ==
    /\ fout = <<>>
    /\ IF ispow2(fin[1])
       THEN /\ linebytes' = fin[1]
            /\ sets' = [i \in 1..fin[2] |-> CacheLine(fin[1])]
            /\ lru' = fin[2]
            /\ fout' = <<"built">>
       ELSE /\ fout' = <<"ValueError">>
            /\ UNCHANGED <<linebytes, sets, lru>>
    /\ UNCHANGED <<mem, reads, bytesRead, writes, bytesWritten, lastmiss, hits,
                   misses, timeouts, timeout, stats, nocache, noprefetch, now,
                   last, hist, fin, ctx, mutex>>

SpecConstruct == InitConstruct /\ [][New]_vars

(*************************************************************************)
(* SpecCache: the Cache called directly (read, update, invalidate) with  *)
(* timeout = TimeoutSecs and time passing; hist records each call and    *)
(* the lines it left.                                                    *)
(*************************************************************************)
\* the ranges asked of the Cache: contiguous, from the first line on
Ranges ==
    {addrange(<<>>, start, start + n) : start \in 0..LineBytes, n \in 1..LineBytes}

InitCache ==
    Construct(LineBytes, Sets, MemLines, TimeoutSecs) /\ fin = <<>> /\ fout = <<>> /\ Alone

\* a clock that stands still
Tick_still(h) == h

\* the clock read by the next call
Tick(h) == [h EXCEPT !.clock = @ + 1]

\* cache.read(rng)
CacheRead ==
    /\ now < MaxTime
    /\ \E rng \in Ranges :
       \E r \in {cache_read(Tick(Obj), rng)} :
           /\ Store(r.h)
           /\ hist' = Append(hist, [op |-> "read", rng |-> rng, kind |-> r.kind,
                                    err |-> "", lines |-> r.h.sets])
    /\ UNCHANGED <<Config, last, fin, fout, ctx, mutex>>

\* cache.update(rng, data), data as long as rng spans
CacheUpdate ==
    /\ now < MaxTime
    /\ \E rng \in Ranges :
       \E h \in {cache_update(Tick(Obj), rng, Ramp(1, span(rng)))} :
           /\ Store(h)
           /\ hist' = Append(hist, [op |-> "update", rng |-> rng, kind |-> "",
                                    err |-> h.err, lines |-> h.sets])
    /\ UNCHANGED <<Config, last, fin, fout, ctx, mutex>>

\* cache.invalidate()
CacheInvalidate ==
    /\ Len(hist) < MaxTime
    /\ sets' = cache_invalidate(sets)
    /\ lru' = Len(sets)
    /\ lastmiss' = <<>>
    /\ hist' = Append(hist, [op |-> "invalidate", rng |-> <<>>, kind |-> "",
                             err |-> "", lines |-> cache_invalidate(sets)])
    /\ UNCHANGED <<mem, reads, bytesRead, writes, bytesWritten, hits, misses,
                   timeouts, Config, now, last, fin, fout, ctx, mutex>>

Age == (\E d \in 1..(timeout + 1) : Sleep(d, MaxTime))

NextCache == CacheRead \/ CacheUpdate \/ CacheInvalidate \/ Age

SpecCache == InitCache /\ [][NextCache]_vars

(*************************************************************************)
(* SpecFail: reads over a transport that may raise on the first or the   *)
(* second readBytes of a call; address 0 may be in nocache.              *)
(*************************************************************************)
FailTime == Sets + 1

InitFail == Construct(LineBytes, Sets, MemLines, Never) /\ fin = <<>> /\ fout = <<>> /\ Alone

ReadFail ==
    /\ \E addr \in Addrs, size \in 1..MaxLen, k \in {Reliable, 0, 1} :
           ReadFrom([Obj EXCEPT !.fail = k], addr, size, FailTime)
    /\ UNCHANGED hist

NextFail == (Volatile /\ last.op = "init") \/ ReadFail

SpecFail == InitFail /\ [][NextFail]_vars

(*************************************************************************)
(* Two execution contexts calling one CachedHandler.  A call is suspended *)
(* only inside a blocking transport call, so a readBytes that misses is   *)
(* three steps (cache.read up to the transport call; the transport        *)
(* reading the memory; cache.update and line.read after it returned) and  *)
(* a writeBytes two (cache.write up to the transport call; the transport  *)
(* writing).  Each context makes one call, for a request of one           *)
(* sub-request; nocache and noprefetch are empty.  The callers either     *)
(* wrap every call in one lock or use none.                               *)
(*************************************************************************)
Contexts == 1..2

ThreadLines == MemLines

\* the object as the constructor leaves it
Built(lb, nsets, nlines) ==
    [mem |-> InitMem(lb, nlines), reads |-> 0, bytesRead |-> 0, writes |-> 0,
     bytesWritten |-> 0, sets |-> [i \in 1..nsets |-> CacheLine(lb)], lru |-> nsets,
     lastmiss |-> <<>>, hits |-> 0, misses |-> 0, timeouts |-> 0, clock |-> 0,
     err |-> "", tlog |-> <<>>, events |-> <<>>, fail |-> Reliable]

\* the calls a context may make: within the memory, one sub-request each
Calls ==
    {c \in [op : {"read"}, addr : 0..(LineBytes * ThreadLines - 1), size : 1..MaxLen,
            data : {<<>>}] :
        /\ c.addr + c.size <= LineBytes * ThreadLines
        /\ Len(split_cachelines(c.addr, c.size)) = 1}
    \cup
    {[op |-> "write", addr |-> a, size |-> n, data |-> Ramp(1, n)] :
        a \in {b \in 0..(LineBytes * ThreadLines - 1) : b % LineBytes = 0},
        n \in 1..LineBytes}

\* a context about to make the call c
Caller(c) ==
    [pc |-> "idle", call |-> c, request |-> <<>>, kind |-> "", desired |-> <<>>,
     linedata |-> <<>>, ret |-> <<>>, err |-> ""]

InitThreads ==
    /\ Construct(LineBytes, Sets, ThreadLines, Never)
    /\ fin = <<>> /\ fout = <<>>
    /\ ctx \in {<<Caller(c1), Caller(c2)>> : c1 \in Calls, c2 \in Calls}
    /\ mutex \in {NoMutex, Free}

\* taking the lock on entry and giving it back on return, where the
\* callers use one
MayEnter == mutex \in {NoMutex, Free}

Entered(t) == IF mutex = Free THEN t ELSE mutex

Left(t) == IF mutex = t THEN Free ELSE mutex

\* the request of the call: its only sub-request
Request(c) == split_cachelines(c.addr, c.size)[1]

\* the line-aligned range readBytes asks _read_safely to fetch
LineRange(request) ==
    addrange(<<>>, rounddowntoline(rmin(request)),
             rounddowntoline(rmin(request)) + linebytes)

\* readBytes up to the transport call: data = self.cache.read(request);
\* a hit returns at once
Search(t) ==
    /\ ctx[t].pc = "idle" /\ ctx[t].call.op = "read"
    /\ MayEnter
    /\ \E cr \in {cache_read(Tick(Obj), Request(ctx[t].call))} :
           /\ Store(cr.h)
           /\ IF falsy(cr.data)
              THEN /\ ctx' = [ctx EXCEPT ![t].pc = "fetch",
                                         ![t].request = Request(ctx[t].call),
                                         ![t].kind = IF cr.kind = "hit" THEN "empty"
                                                     ELSE cr.kind]
                   /\ mutex' = Entered(t)
              ELSE /\ ctx' = [ctx EXCEPT ![t].pc = "done", ![t].ret = cr.data]
                   /\ UNCHANGED mutex
    /\ UNCHANGED <<Config, last, hist, fin, fout>>

\* the transport call of _read_safely: the memory is read
Fetch(t) ==
    /\ ctx[t].pc = "fetch"
    /\ \E rs \in {read_safely(Obj, ctx[t].request, LineRange(ctx[t].request), NoData, 0)} :
           /\ Store(rs.h)
           /\ ctx' = [ctx EXCEPT ![t].pc = "update", ![t].desired = rs.desired,
                                 ![t].linedata = rs.ret]
    /\ UNCHANGED <<Config, last, hist, fin, fout, mutex>>

\* readBytes after the transport call: line = self.cache.update(linerange,
\* linedata); data = line.read(request)
Update(t) ==
    /\ ctx[t].pc = "update"
    /\ \E r \in {read_miss_line(Obj, ctx[t].request, ctx[t].kind, lru,
                                cache_update(Obj, ctx[t].desired, ctx[t].linedata))} :
           /\ Store(r.h)
           /\ ctx' = [ctx EXCEPT ![t].pc = "done", ![t].ret = r.data,
                                 ![t].err = r.h.err]
    /\ mutex' = Left(t)
    /\ UNCHANGED <<Config, last, hist, fin, fout>>

\* writeBytes up to the transport call: self.cache.write(request, d)
Patch(t) ==
    /\ ctx[t].pc = "idle" /\ ctx[t].call.op = "write"
    /\ MayEnter
    /\ \E cw \in {cache_write(Tick(Obj), Request(ctx[t].call),
                              write_slice(ctx[t].call.data, 0, Request(ctx[t].call)))} :
           /\ Store(cw)
           /\ IF cw.err # ""
              THEN /\ ctx' = [ctx EXCEPT ![t].pc = "done", ![t].err = cw.err]
                   /\ UNCHANGED mutex
              ELSE /\ ctx' = [ctx EXCEPT ![t].pc = "send",
                                         ![t].request = Request(ctx[t].call)]
                   /\ mutex' = Entered(t)
    /\ UNCHANGED <<Config, last, hist, fin, fout>>

\* the transport call of writeBytes: the memory is written
Send(t) ==
    /\ ctx[t].pc = "send"
    /\ \E h \in {handler_writeBytes(Obj, rmin(ctx[t].request),
                                    write_slice(ctx[t].call.data, 0, ctx[t].request))} :
           /\ Store(h)
           /\ ctx' = [ctx EXCEPT ![t].pc = "done", ![t].err = h.err]
    /\ mutex' = Left(t)
    /\ UNCHANGED <<Config, last, hist, fin, fout>>

NextThreads ==
    \E t \in Contexts : Search(t) \/ Fetch(t) \/ Update(t) \/ Patch(t) \/ Send(t)

SpecThreads == InitThreads /\ [][NextThreads]_vars

(*************************************************************************)
(* Two SparseRange objects, fin[1] and fin[2], built step by step with   *)
(* the public methods and operators; fout is the last call: its name,    *)
(* the object it acted on, its arguments and the two objects before it.  *)
(*************************************************************************)
\* everything but the two SparseRanges and the last call
Apart ==
    <<mem, reads, bytesRead, writes, bytesWritten, sets, lru, lastmiss, hits,
      misses, timeouts, timeout, stats, linebytes, nocache, noprefetch, now,
      last, hist, ctx, mutex>>

InitRanges ==
    /\ Unbuilt
    /\ fin = <<<<>>, <<>>>>
    /\ fout = [op |-> "init", i |-> 1, a |-> 0, b |-> 0, was |-> <<<<>>, <<>>>>]
    /\ Alone

\* the call op(a, b) on fin[i] has returned val
Called(op, i, a, b, val) ==
    /\ fin' = [fin EXCEPT ![i] = val]
    /\ fout' = [op |-> op, i |-> i, a |-> a, b |-> b, was |-> fin]
    /\ UNCHANGED Apart

\* fin[i].addrange(a, b)
AddRange(i, a, b) == Called("addrange", i, a, b, addrange(fin[i], a, b))

\* fin[i].discardrange(a, b)
DiscardRange(i, a, b) == Called("discardrange", i, a, b, delrange(fin[i], a, b))

\* fin[i].add(n)
Add(i, n) == Called("add", i, n, n + 1, addrange(fin[i], n, n + 1))

\* fin[i].discard(n)
Discard(i, n) == Called("discard", i, n, n + 1, delrange(fin[i], n, n + 1))

\* fin[i] = fin[i] | fin[j]: a copy of fin[i], then __ior__
Union(i) == Called("or", i, 0, 0, ior(fin[i], fin[3 - i]))

\* fin[i] = fin[i] - fin[j]: a copy of fin[i], then __isub__
Difference(i) == Called("sub", i, 0, 0, isub(fin[i], fin[3 - i]))

\* fin[i] = fin[i] & fin[j]
Intersection(i) == Called("and", i, 0, 0, and(fin[i], fin[3 - i]))

\* the arguments of addrange and discardrange: a range, a null range
\* (a = b) or an inverted one (a > b)
Spans == {ab \in (0..MaxAddr) \X (0..MaxAddr) : ab[1] <= ab[2] + 1}

\* fin[1] is built with the methods, and either object with the operators
NextRanges ==
    \/ \E ab \in Spans : AddRange(1, ab[1], ab[2])
    \/ \E ab \in Spans : DiscardRange(1, ab[1], ab[2])
    \/ \E n \in 0..(MaxAddr - 1) : Add(1, n)
    \/ \E n \in 0..(MaxAddr - 1) : Discard(1, n)
    \/ \E i \in 1..2 : Union(i) \/ Difference(i) \/ Intersection(i)

SpecRanges == InitRanges /\ [][NextRanges]_vars

(*************************************************************************)
(* A SparseRange written with str() and read back by the constructor.    *)
(*************************************************************************)
\* the elements of X in ascending order
RECURSIVE Ascending(_)
Ascending(X) ==
    IF X = {}
    THEN <<>>
    ELSE <<CHOOSE m \in X : \A x \in X : m <= x>>
         \o Ascending(X \ {CHOOSE m \in X : \A x \in X : m <= x})

\* the SparseRanges with boundaries from lo to hi: every _ranges list in
\* normal form
Normalized(lo, hi) == {Ascending(X) : X \in {Y \in SUBSET (lo..hi) : even(Cardinality(Y))}}

InitLiteral ==
    /\ Unbuilt
    /\ fin \in Normalized(-1, MaxLiteral)
    /\ fout = [step |-> "init", text |-> <<>>, val |-> <<>>, err |-> ""]
    /\ Alone

\* text = str(fin)
Format ==
    /\ fout.step = "init"
    /\ fout' = [fout EXCEPT !.step = "str", !.text = range_str(fin)]
    /\ UNCHANGED <<Apart, fin>>

\* SparseRange(text)
Parse ==
    /\ fout.step = "str"
    /\ \E res \in {from_string(fout.text)} :
           fout' = [fout EXCEPT !.step = "parsed", !.val = res.val, !.err = res.err]
    /\ UNCHANGED <<Apart, fin>>

NextLiteral == Format \/ Parse

SpecLiteral == InitLiteral /\ [][NextLiteral]_vars

(*************************************************************************)
(* SparseRange.split on a SparseRange fin.s at the ascending points      *)
(* fin.points.                                                           *)
(*************************************************************************)
\* ascending split points, some of them outside the boundaries
SplitPoints ==
    {Ascending(X) : X \in {Y \in SUBSET ((-1)..(MaxAddr + 1)) : Cardinality(Y) <= MaxPoints}}

InitParts ==
    /\ Unbuilt
    /\ fin \in [s : Normalized(0, MaxAddr), points : SplitPoints]
    /\ fout = [step |-> "init", parts |-> <<>>, err |-> ""]
    /\ Alone

\* list(fin.s.split(fin.points))
Split ==
    /\ fout.step = "init"
    /\ fout' = IF split_raises(fin.s, fin.points)
               THEN [step |-> "split", parts |-> <<>>, err |-> "TypeError"]
               ELSE [step |-> "split", parts |-> split(fin.s, fin.points), err |-> ""]
    /\ UNCHANGED <<Apart, fin>>

SpecParts == InitParts /\ [][Split]_vars

(*************************************************************************)
(* SpecBuffer: reads and writes of any range, invalidate(), the timeout  *)
(* set to None, 0 or TimeoutSecs at any moment, time passing, and one    *)
(* address put in noprefetch before the first call.  last keeps only the *)
(* name of the call.                                                     *)
(*************************************************************************)
BufferTime == Sets + 1

InitBuffer == Construct(LineBytes, Sets, MemLines, Never) /\ fin = <<>> /\ fout = <<>> /\ Alone

\* a call that left the object as h, while the clock is before BufferTime
Quietly(op, h) ==
    /\ now < BufferTime
    /\ h.clock <= BufferTime
    /\ Store(h)
    /\ Owner(op)
    /\ UNCHANGED <<Config, hist, fin, fout, ctx, mutex>>

ReadBuffer ==
    \E addr \in Addrs, size \in 1..MaxLen :
        /\ addr + size <= Len(mem)
        /\ Quietly("read", readBytes(Obj, addr, size).h)

WriteBuffer ==
    \E addr \in Addrs, n \in 1..MaxWrite :
        /\ addr + n <= Len(mem)
        /\ Quietly("write", writeBytes(Obj, addr, Ramp(1, n)))

Fence == NoPrefetch

Clear == Invalidate /\ UNCHANGED hist

Retime == (\E val \in {Never, 0, TimeoutSecs} : SetTimeout(val)) /\ UNCHANGED hist

Linger == Sleep(TimeoutSecs + 1, BufferTime)

NextBuffer == ReadBuffer \/ WriteBuffer \/ Fence \/ Clear \/ Retime \/ Linger

SpecBuffer == InitBuffer /\ [][NextBuffer]_vars

(*************************************************************************)
(* SpecPatch: the Cache called directly with read, update and write,     *)
(* time passing, under a timeout chosen at construction: None,           *)
(* TimeoutSecs or 0.  fout is the last call: its name, its range, its    *)
(* data and the lines before it.                                         *)
(*************************************************************************)
InitPatch ==
    /\ \E tmo \in {Never, TimeoutSecs, 0} : Construct(LineBytes, Sets, MemLines, tmo)
    /\ fin = <<>>
    /\ fout = [op |-> "init", rng |-> <<>>, data |-> <<>>, was |-> <<>>]
    /\ Alone

\* a call on the Cache that left it as h, while the clock is before MaxTime
Direct(op, rng, data, h) ==
    /\ now < MaxTime
    /\ Store(h)
    /\ fout' = [op |-> op, rng |-> rng, data |-> data, was |-> sets]
    /\ UNCHANGED <<Config, last, hist, fin, ctx, mutex>>

\* cache.read(rng)
Lookup == \E rng \in Ranges : Direct("read", rng, <<>>, cache_read(Tick(Obj), rng).h)

\* cache.update(rng, data) after a miss, data as long as rng spans
Refill ==
    /\ fout.op = "read"
    /\ \E rng \in Ranges :
           Direct("update", rng, Ramp(0, span(rng)),
                  cache_update(Tick(Obj), rng, Ramp(0, span(rng))))

\* cache.write(rng, data), data as long as rng spans
Overwrite ==
    \E rng \in Ranges :
        Direct("write", rng, Ramp(1, span(rng)),
               cache_write(Tick(Obj), rng, Ramp(1, span(rng))))

Stale == Sleep(1, MaxTime) /\ UNCHANGED fout

NextPatch == Lookup \/ Refill \/ Overwrite \/ Stale

SpecPatch == InitPatch /\ [][NextPatch]_vars

(*************************************************************************)
(* CacheLine.hit on a line whose range is fin.range, for the request     *)
(* fin.request; an empty fin.range is an invalidated line.               *)
(*************************************************************************)
InitHit ==
    /\ Unbuilt
    /\ fin \in [range : Normalized(0, MaxAddr), request : Normalized(0, MaxAddr)]
    /\ fout = [step |-> "init", val |-> FALSE]
    /\ Alone

\* line.hit(request)
Hit ==
    /\ fout.step = "init"
    /\ fout' = [step |-> "hit",
                val |-> line_hit([CacheLine(LineBytes) EXCEPT !.range = fin.range],
                                 fin.request)]
    /\ UNCHANGED <<Apart, fin>>

SpecHit == InitHit /\ [][Hit]_vars

(*************************************************************************)
(* SpecFetch: lines of 4 * LineBytes bytes; the owner puts single        *)
(* addresses in noprefetch before the first read, then ranges of the     *)
(* first line and of the start of the second are read.                   *)
(*************************************************************************)
\* sub-requests served under SpecFetch
FetchTime == Sets

\* ch.noprefetch.add(a), before the first read: up to three addresses
Shield ==
    /\ now = 0
    /\ Cardinality(Elems(noprefetch)) < 3
    /\ \E a \in 0..linebytes :
           /\ ~contains_pair(noprefetch, a, a + 1)
           /\ noprefetch' = addrange(noprefetch, a, a + 1)
    /\ Owner("noprefetch")
    /\ UNCHANGED <<mem, reads, bytesRead, writes, bytesWritten, sets, lru, lastmiss,
                   hits, misses, timeouts, timeout, stats, linebytes, nocache,
                   now, hist, fin, fout, ctx, mutex>>

ReadFetch ==
    /\ \E addr \in 0..linebytes, size \in 1..MaxLen : ReadBytes(addr, size, FetchTime)
    /\ UNCHANGED hist

InitFetch ==
    Construct(4 * LineBytes, Sets, PolicyLines, Never) /\ fin = <<>> /\ fout = <<>> /\ Alone

NextFetch == Shield \/ ReadFetch

SpecFetch == InitFetch /\ [][NextFetch]_vars

(*************************************************************************)
(* SpecRetime: reads and writes of one byte, so that every sub-request   *)
(* lies in one aligned line, while the owner sets the timeout to None,   *)
(* 0 or TimeoutSecs at any moment and time passes.                       *)
(*************************************************************************)
RetimeTime == Sets + 1

InitRetime == Construct(LineBytes, Sets, MemLines, Never) /\ fin = <<>> /\ fout = <<>> /\ Alone

ReadOne ==
    /\ \E addr \in Addrs : ReadBytes(addr, 1, RetimeTime)
    /\ UNCHANGED hist

WriteOne ==
    /\ \E addr \in Addrs, b \in Byte : WriteBytes(addr, <<b>>, RetimeTime)
    /\ UNCHANGED hist

NextRetime == ReadOne \/ WriteOne \/ Retime \/ Linger

SpecRetime == InitRetime /\ [][NextRetime]_vars

(*************************************************************************)
(* SpecWriteFail: reads and writes of one byte over a transport whose    *)
(* writeBytes may raise; timeout = None.                                 *)
(*************************************************************************)
WriteFailTime == Sets + 1

InitWriteFail == Construct(LineBytes, Sets, MemLines, Never) /\ fin = <<>> /\ fout = <<>> /\ Alone

ReadSound ==
    /\ \E addr \in Addrs : ReadBytes(addr, 1, WriteFailTime)
    /\ UNCHANGED hist

WriteFail ==
    /\ \E addr \in Addrs, b \in Byte, k \in {Reliable, 0} :
           WriteTo([Obj EXCEPT !.fail = k], addr, <<b>>, WriteFailTime)
    /\ UNCHANGED hist

NextWriteFail == ReadSound \/ WriteFail

SpecWriteFail == InitWriteFail /\ [][NextWriteFail]_vars

(*************************************************************************)
(* The claims.                                                           *)
(*************************************************************************)

\* C1 (read coherence): every readBytes(addr, size) returns exactly the
\* bytes the transport holds at [addr, addr+size) when it returns.
C1_ReadCoherence ==
    (last.op = "read" /\ last.err = "") =>
        last.ret = PySlice(mem, last.addr, last.addr + last.size)

\* C2 (write-through): after writeBytes(addr, data) the transport holds
\* data[i] at addr+i for every i, also when the range spans several lines.
C2_WriteThrough ==
    (last.op = "write" /\ last.err = "") =>
        \A i \in 1..Len(last.data) : mem[last.addr + i] = last.data[i]

\* C3 (line splitting): the sub-requests of [addr, addr+size) are
\* non-empty contiguous ranges in ascending order, pairwise disjoint, with
\* union [addr, addr+size), and none holds both b-1 and b for a multiple b
\* of linebytes.
C3_LineSplitting ==
    fout # <<>> =>
        /\ \A i \in 1..Len(fout) : Len(fout[i]) = 2 /\ fout[i][1] < fout[i][2]
        /\ \A i \in 1..Len(fout) : \A j \in 1..Len(fout) :
               i < j => rmax(fout[i]) < rmin(fout[j])
        /\ UNION {Elems(fout[i]) : i \in 1..Len(fout)} = fin[1]..(fin[1] + fin[2] - 1)
        /\ \A i \in 1..Len(fout) : \A n \in Elems(fout[i]) :
               (n + 1) \in Elems(fout[i]) => (n + 1) % linebytes # 0

(*************************************************************************)
(* What the claims about recorded calls are stated with.                 *)
(*************************************************************************)
\* a recorded call with one sub-request that missed, and one that hit
WasMiss(c) == Len(c.events) = 1 /\ c.events[1].kind = "CacheMiss"
WasHit(c) == Len(c.events) = 1 /\ c.events[1].kind = "hit"

\* a recorded call that asked for a range inside one aligned line, and
\* that line
Inside(c) == c.addr \div linebytes = (c.addr + c.size - 1) \div linebytes
LineAt(c) ==
    <<linebytes * (c.addr \div linebytes), linebytes * (c.addr \div linebytes) + linebytes>>

\* the lines the first n calls read, the call that read line r last among
\* them, and the line read least recently
LinesRead(n) == {LineAt(hist[i]) : i \in 1..n}
LastReadOf(r, n) ==
    CHOOSE i \in 1..n : LineAt(hist[i]) = r /\ \A j \in (i + 1)..n : LineAt(hist[j]) # r
LeastRecent(n) ==
    CHOOSE r \in LinesRead(n) : \A q \in LinesRead(n) : LastReadOf(r, n) <= LastReadOf(q, n)

\* the ranges held once the last recorded call returned
Held == {hist[Len(hist)].cached[i] : i \in 1..Len(sets)}

\* the sub-requests of a call that were not served from the cache
NonHits(evs) == Cardinality({i \in 1..Len(evs) : evs[i].kind # "hit"})

\* the four reads of the scenario, in its order
ScenarioRun ==
    Len(hist) = 4 /\ [i \in 1..4 |-> hist[i].addr] = <<0, 16, 100, 0>>

\* C4, as stated (linebytes=32, sets=2, empty cache): [0,4) misses and
\* fetches [0,32); [16,20) hits without a transport call; [100,104) misses,
\* fetches [96,128) and evicts the line holding [0,32); [0,4) then misses
\* a second time.
C4_Scenario ==
    ScenarioRun =>
        /\ WasMiss(hist[1]) /\ hist[1].tlog = << <<"R", 0, 32>> >>
        /\ WasHit(hist[2]) /\ hist[2].tlog = <<>>
        /\ WasMiss(hist[3]) /\ hist[3].tlog = << <<"R", 96, 32>> >>
        /\ hist[3].events[1].old = <<0, 32>>
        /\ WasMiss(hist[4])

\* C4, amended: [0,4) misses and fetches [0,32); [16,20) hits without a
\* transport call; [100,104) misses and fetches [96,128) into the line that
\* was still unused, [0,32) staying cached; [0,4) then hits, without a
\* transport call (2 hits, 2 misses, 2 transport reads in all).
C4_ScenarioKeepsLine ==
    ScenarioRun =>
        /\ WasMiss(hist[1]) /\ hist[1].tlog = << <<"R", 0, 32>> >>
        /\ WasHit(hist[2]) /\ hist[2].tlog = <<>>
        /\ WasMiss(hist[3]) /\ hist[3].tlog = << <<"R", 96, 32>> >>
        /\ hist[3].events[1].old = <<>>
        /\ \E i \in 1..Len(sets) : hist[3].cached[i] = <<0, 32>>
        /\ WasHit(hist[4]) /\ hist[4].tlog = <<>>
        /\ hits = 2 /\ misses = 2 /\ timeouts = 0 /\ reads = 2

C4_ScenarioDone == ScenarioRun /\ Held = {<<0, 32>>, <<96, 128>>}

\* C5, as stated (timeout = Never): the first read of a range triggers
\* exactly one transport read and every identical read after it none.
C5_OneTransportRead ==
    last.op = "read" =>
        /\ last.again => last.tlog = <<>>
        /\ (~last.again /\ NonHits(last.events) = Len(last.events)) => Len(last.tlog) = 1

\* C5, amended (timeout = Never): a read triggers exactly one transport
\* read for each of its line-aligned sub-requests that the cache does not
\* hold, so exactly one when the range is a single sub-request no line
\* covers; an identical read that follows at once, of a range of at most
\* sets sub-requests, is served from the cache without a transport read.
C5_OneReadPerMissedLine ==
    last.op = "read" =>
        /\ Len(last.tlog) = NonHits(last.events)
        /\ reads = last.before.reads + Len(last.tlog)
        /\ (Len(last.events) = 1 /\ ~last.covered) => Len(last.tlog) = 1
        /\ (last.again /\ Len(last.events) <= Len(sets)) =>
               last.tlog = <<>> /\ NonHits(last.events) = 0

C5_RepeatedTwoLineRead ==
    /\ last.op = "read" /\ last.again /\ Len(last.events) = 2
    /\ last.tlog = <<>> /\ reads = 2

\* C6 (LRU eviction): from an empty cache of K = sets lines, once reads
\* inside single lines have touched exactly K lines, the read of a line not
\* among them misses, evicts exactly the line read least recently and
\* leaves the other K-1 and the new one cached.
C6_LRUEviction ==
    LET n == Len(hist)
    IN  (/\ n > Len(sets)
         /\ \A i \in 1..n : Inside(hist[i])
         /\ Cardinality(LinesRead(n - 1)) = Len(sets)
         /\ LineAt(hist[n]) \notin LinesRead(n - 1))
        => /\ WasMiss(hist[n])
           /\ hist[n].events[1].old = LeastRecent(n - 1)
           /\ hist[n - 1].cached[hist[n].events[1].slot] = LeastRecent(n - 1)
           /\ Held = (LinesRead(n - 1) \ {LeastRecent(n - 1)}) \cup {LineAt(hist[n])}

C6_EvictedFirstOfK ==
    /\ Len(hist) = Len(sets) + 1
    /\ \A i \in 1..Len(hist) : Inside(hist[i])
    /\ Cardinality(LinesRead(Len(hist))) = Len(hist)
    /\ hist[Len(hist)].events[1].old = LineAt(hist[1])

\* C7 (recency protects a line): when all K = sets lines are in use and a
\* read hits one of them, the misses that follow, up to K-1 of them, each
\* evict another of the other lines, K-1 misses evicting exactly the other
\* K-1; the line that was hit is still cached and every range inside it is
\* still found in the cache.
C7_RecencyProtects ==
    \A m \in 1..Len(hist) :
        (/\ Len(hist) - m \in 1..(Len(sets) - 1)
         /\ WasHit(hist[m])
         /\ \A i \in 1..Len(sets) : hist[m].cached[i] # <<>>
         /\ \A i \in (m + 1)..Len(hist) : WasMiss(hist[i]))
        => LET s == hist[m].events[1].slot
               victims == {hist[i].events[1].slot : i \in (m + 1)..Len(hist)}
           IN  /\ s \notin victims
               /\ Cardinality(victims) = Len(hist) - m
               /\ \A i \in (m + 1)..Len(hist) :
                      hist[i].events[1].old = hist[m].cached[hist[i].events[1].slot]
               /\ (Len(hist) - m = Len(sets) - 1) => victims = (1..Len(sets)) \ {s}
               /\ sets[s].range = hist[m].cached[s]
               /\ \A a \in Elems(sets[s].range) : \A b \in Elems(sets[s].range) :
                      a <= b => search(Obj, <<a, b + 1>>).kind = "hit"

C7_OthersEvicted ==
    \E m \in 1..Len(hist) :
        /\ Len(sets) > 1
        /\ Len(hist) - m = Len(sets) - 1
        /\ WasHit(hist[m])
        /\ \A i \in 1..Len(sets) : hist[m].cached[i] # <<>>
        /\ \A i \in (m + 1)..Len(hist) : WasMiss(hist[i])

\* n reads of one address each, in n distinct lines
OneEach(n) ==
    \A i \in 1..n : /\ hist[i].size = 1
                    /\ \A j \in 1..n : i # j => LineAt(hist[i]) # LineAt(hist[j])

\* C8 (fill before evict): from an empty cache of K = sets lines, reads of
\* one address in each of n <= K distinct lines give n misses, n transport
\* reads of one whole aligned line each (n*linebytes bytes), each into an
\* unused line; every address of those lines is then found in the cache,
\* and the read of one after K such reads is a hit without a transport
\* read.
C8_FillBeforeEvict ==
    LET n == Len(hist)
        K == Len(sets)
    IN  /\ (n <= K /\ OneEach(n)) =>
               /\ misses = n /\ hits = 0 /\ timeouts = 0
               /\ reads = n /\ bytesRead = n * linebytes
               /\ \A i \in 1..n :
                      /\ WasMiss(hist[i])
                      /\ hist[i].events[1].old = <<>>
                      /\ hist[i].tlog = << <<"R", LineAt(hist[i])[1], linebytes>> >>
                      /\ \A a \in Elems(LineAt(hist[i])) :
                             search(Obj, <<a, a + 1>>).kind = "hit"
        /\ (n = K + 1 /\ OneEach(K) /\ hist[n].size = 1 /\ LineAt(hist[n]) \in LinesRead(K)) =>
               /\ WasHit(hist[n]) /\ hist[n].tlog = <<>>
               /\ misses = K /\ hits = 1 /\ timeouts = 0
               /\ reads = K /\ bytesRead = K * linebytes

C8_FilledThenHit ==
    /\ Len(hist) = Len(sets) + 1
    /\ OneEach(Len(sets))
    /\ hist[Len(hist)].size = 1
    /\ LineAt(hist[Len(hist)]) \in LinesRead(Len(sets))
    /\ \A i \in 1..Len(sets) : hist[i].addr # hist[Len(hist)].addr

\* C9 (timeout = Seconds(n)): a read of a range a line holds is a hit
\* while a line holding it is at most n seconds past its lastupdate; when
\* more than n seconds have passed it is counted as a timeout (timeouts+1,
\* hits and misses unchanged) and fetches the line once.
C9_Timeout ==
    (last.op = "read" /\ Len(last.events) = 1 /\ last.events[1].ages # {}) =>
        IF \E g \in last.events[1].ages : g[2] <= timeout
        THEN last.events[1].kind = "hit"
        ELSE /\ last.events[1].kind = "CacheTimeout"
             /\ timeouts = last.before.timeouts + 1
             /\ hits = last.before.hits /\ misses = last.before.misses
             /\ Len(last.tlog) = 1 /\ reads = last.before.reads + 1

\* C10 (writes are reflected in the cache, timeout = Never): when one line
\* holds all of [addr, addr+len(data)), the readBytes of that range that
\* follows writeBytes(addr, data) is served from the cache alone, returns
\* data and reads nothing from the transport.
C10_WritesReflected ==
    (last.op = "read" /\ last.written # NoData) =>
        /\ last.err = ""
        /\ last.ret = last.written
        /\ last.tlog = <<>> /\ reads = last.before.reads
        /\ \A i \in 1..Len(last.events) : last.events[i].kind = "hit"

C10_ReadBackWritten ==
    /\ last.op = "read" /\ last.written # NoData
    /\ Len(last.written) > 1
    /\ last.ret = last.written
(*************************************************************************)
(* What the claims about nocache and noprefetch are stated with.         *)
(*************************************************************************)
\* the addresses the last call asked for
Asked == last.addr..(last.addr + last.size - 1)

\* the addresses the transport reads of a call covered
Fetched(tlog) ==
    UNION {tlog[i][2]..(tlog[i][2] + tlog[i][3] - 1) :
              i \in {j \in 1..Len(tlog) : tlog[j][1] = "R"}}

\* C11 (nocache is never served from the cache): every byte a readBytes
\* call returns for an address in nocache was covered by a transport read
\* of that same call and is the byte the transport holds, whether the
\* sub-request lies wholly or partly in nocache.
C11_NoCacheFresh ==
    (last.op = "read" /\ last.err = "") =>
        \A a \in Asked \cap Elems(nocache) :
            /\ a \in Fetched(last.tlog)
            /\ last.ret[a - last.addr + 1] = mem[a + 1]

\* a read that a line served while part of it lay in nocache, after the
\* target had changed that part
C11_RefreshedOverHit ==
    /\ last.op = "read" /\ last.err = ""
    /\ Len(last.events) = 1 /\ last.events[1].kind = "hit"
    /\ \E a \in Asked \cap Elems(nocache) :
           /\ mem[a + 1] # InitMem(linebytes, PolicyLines)[a + 1]
           /\ sets[last.events[1].slot].data[a - rmin(sets[last.events[1].slot].range) + 1]
                  # mem[a + 1]

\* the read that filled a line: one sub-request, not served from the cache
\* and not read past it
Filled ==
    /\ last.op = "read" /\ last.err = "" /\ Len(last.events) = 1
    /\ last.events[1].kind \in {"CacheMiss", "CacheTimeout"}

\* the range of the line that read filled, and the aligned line of its
\* first address
FilledRange == Elems(sets[last.events[1].slot].range)
AlignedLine ==
    (linebytes * (last.addr \div linebytes))..(linebytes * (last.addr \div linebytes) + linebytes - 1)

\* C12, as stated: after a Cache.update performed by readBytes no line's
\* range contains an address that is in nocache.
C12_NoCacheNeverCached ==
    (last.op = "read" /\ \E i \in 1..Len(last.events) :
                             last.events[i].kind \in {"CacheMiss", "CacheTimeout"}) =>
        \A i \in 1..Len(sets) : Elems(sets[i].range) \cap Elems(nocache) = {}

\* C12, amended: the line a Cache.update of readBytes installs holds the
\* sub-request, lies inside the sub-request's aligned line joined with the
\* sub-request, and holds no noprefetch address outside the sub-request;
\* nocache keeps nothing out of it: with noprefetch empty it holds the
\* whole aligned line, nocache addresses included.
C12_LineKeepsNoCache ==
    Filled =>
        /\ Asked \subseteq FilledRange
        /\ FilledRange \subseteq (AlignedLine \cup Asked)
        /\ (FilledRange \cap Elems(noprefetch)) \subseteq Asked
        /\ noprefetch = <<>> => AlignedLine \subseteq FilledRange

\* a line filled with an address of nocache that the read did not ask for
C12_NoCacheByteInLine ==
    /\ Filled /\ noprefetch # <<>>
    /\ (FilledRange \cap Elems(nocache)) \ Asked # {}

\* C13 (noprefetch protection): no transport read issued during a
\* readBytes(addr, size) call covers an address that is in noprefetch and
\* outside [addr, addr+size), whatever the cache holds and whatever nocache
\* and noprefetch are.
C13_NoPrefetchProtected ==
    last.op = "read" => (Fetched(last.tlog) \cap Elems(noprefetch)) \subseteq Asked

\* a miss whose line fetch stopped short of a noprefetch address of the
\* line that the call had not asked for
C13_FetchCutShort ==
    /\ Filled /\ Len(last.tlog) = 1
    /\ \E a \in (Elems(noprefetch) \cap AlignedLine) \ Asked :
           /\ a \notin Fetched(last.tlog)
           /\ (a - 1 \in Fetched(last.tlog) \/ a + 1 \in Fetched(last.tlog))

\* C14 (caching disabled): while timeout = 0 every sub-request of a
\* readBytes call is a miss whatever the lines hold: hits and timeouts stay
\* as they were, misses grows by one for each sub-request, and each
\* sub-request issues a transport read.
C14_DisabledAlwaysMisses ==
    (last.op = "read" /\ timeout = 0) =>
        /\ \A i \in 1..Len(last.events) : last.events[i].kind = "CacheMiss"
        /\ hits = last.before.hits /\ timeouts = last.before.timeouts
        /\ misses = last.before.misses + Len(last.events)
        /\ Len(last.tlog) = Len(last.events)
        /\ reads = last.before.reads + Len(last.events)

\* a read with timeout = 0 of a range that a line held when it was asked
C14_MissOnHeldLine ==
    /\ last.op = "read" /\ timeout = 0 /\ last.covered
    /\ Len(last.events) = 1 /\ last.tlog # <<>>

\* C15 (invalidate drops every line): the first read after invalidate(),
\* of any range and whatever was cached before, counts every one of its
\* sub-requests as a miss, none as a hit or a timeout, and fetches each
\* from the transport.
C15_InvalidateDrops ==
    (last.op = "read" /\ last.dumped) =>
        /\ \A i \in 1..Len(last.events) : last.events[i].kind = "CacheMiss"
        /\ hits = last.before.hits /\ timeouts = last.before.timeouts
        /\ misses = last.before.misses + Len(last.events)
        /\ Len(last.tlog) = Len(last.events)
        /\ last.ret = PySlice(mem, last.addr, last.addr + last.size)

\* a range read, cached by that read, and read again after invalidate()
C15_ReadAgainAfterDump ==
    /\ last.op = "read" /\ last.dumped /\ Len(hist) >= 2
    /\ hist[Len(hist) - 1].addr = last.addr /\ hist[Len(hist) - 1].size = last.size
    /\ \E i \in 1..Len(sets) :
           issuperset(hist[Len(hist) - 1].cached[i],
                      addrange(<<>>, last.addr, last.addr + last.size))
    /\ last.tlog # <<>>

\* the sub-requests of the recorded reads that were served in the way
\* kind, and those that went through Cache.read at all
RECURSIVE Served(_, _)
Served(n, kinds) ==
    IF n = 0 THEN 0
    ELSE Served(n - 1, kinds) +
         Cardinality({i \in 1..Len(hist[n].events) : hist[n].events[i].kind \in kinds})

\* C16 (statistics accounting): every read sub-request that is not wholly
\* inside nocache adds one to exactly one of hits, misses and timeouts;
\* writeBytes, invalidate and sub-requests wholly inside nocache leave the
\* three as they are; so each counter is the number of sub-requests served
\* that way since the last clearstats, and their sum the number of
\* sub-requests not wholly inside nocache.
C16_StatsAccounting ==
    /\ hits = Served(Len(hist), {"hit"})
    /\ misses = Served(Len(hist), {"CacheMiss"})
    /\ timeouts = Served(Len(hist), {"CacheTimeout"})
    /\ hits + misses + timeouts = Served(Len(hist), {"hit", "CacheMiss", "CacheTimeout"})
    /\ last.op \in {"write", "invalidate"} =>
           /\ hits = last.before.hits /\ misses = last.before.misses
           /\ timeouts = last.before.timeouts
    /\ last.op = "read" =>
           hits + misses + timeouts =
               last.before.hits + last.before.misses + last.before.timeouts +
               Cardinality({i \in 1..Len(last.events) : last.events[i].kind # "direct"})

\* a read of two sub-requests, the first a hit and the second a miss,
\* after one miss: 1 hit and 2 misses are counted
C16_HitAndMissInOneRead ==
    /\ last.op = "read" /\ Len(last.events) = 2
    /\ last.events[1].kind = "hit" /\ last.events[2].kind = "CacheMiss"
    /\ hits = 1 /\ misses = 2 /\ timeouts = 0

\* a timeout counted, and a read wholly inside nocache that was not
C16_TimeoutCounted == timeouts = 1 /\ last.op = "read" /\ misses = 1 /\ hits = 0
C16_DirectNotCounted ==
    /\ last.op = "read" /\ Len(last.events) = 1 /\ last.events[1].kind = "direct"
    /\ last.before.misses = 1

\* C17 (construction): CachedHandler is constructed if and only if
\* linebytes is one of 1, 2, 4, 8, ...; for every other integer, 0 and the
\* negative ones included, construction raises the configuration error and
\* builds nothing.
C17_PowerOfTwoOnly ==
    fout # <<>> =>
        /\ fout = <<"built">> <=> \E k \in 0..(LineBits + 5) : fin[1] = 2 ^ k
        /\ fout # <<"built">> => (fout = <<"ValueError">> /\ sets = <<>> /\ linebytes = 0)
        /\ fout = <<"built">> =>
               /\ linebytes = fin[1] /\ Len(sets) = fin[2]
               /\ \A i \in 1..Len(sets) : Len(sets[i].data) = fin[1]

\* the negative of a power of two was refused
C17_NegativeRefused == fout = <<"ValueError">> /\ fin[1] = -LineBytes

(*************************************************************************)
(* What the claim about Cache.update is stated with.                     *)
(*************************************************************************)
\* no missed read is waiting for its update
Settled == <<-2>>

\* the lines the first n recorded calls left
LinesAfter(n) == IF n = 0 THEN [i \in 1..Len(sets) |-> CacheLine(linebytes)] ELSE hist[n].lines

\* the request update must cover after the first n recorded calls, as the
\* claim has it: that of the most recent missed read, if no update was
\* accepted since
RECURSIVE Missed(_)
Missed(n) ==
    IF n = 0 THEN Settled
    ELSE IF hist[n].op = "read" /\ hist[n].kind # "hit" THEN hist[n].rng
    ELSE IF hist[n].op = "update" /\ hist[n].err = "" THEN Settled
    ELSE Missed(n - 1)

\* the same, a new or invalidated cache waiting for the empty request
RECURSIVE Awaited(_)
Awaited(n) ==
    IF n = 0 THEN <<>>
    ELSE IF hist[n].op = "read" /\ hist[n].kind # "hit" THEN hist[n].rng
    ELSE IF hist[n].op = "update" /\ hist[n].err = "" THEN Settled
    ELSE IF hist[n].op = "invalidate" THEN <<>>
    ELSE Awaited(n - 1)

\* the last recorded call was cache.update
Updated == Len(hist) >= 1 /\ hist[Len(hist)].op = "update"

\* C18, as stated: Cache.update is accepted only after a missed read, with
\* a request that is a superset of that of the most recent missed read and
\* no update accepted since; otherwise it fails and changes no line.
C18_UpdateOnlyAfterMiss ==
    Updated =>
        /\ hist[Len(hist)].err = "" <=>
               /\ Missed(Len(hist) - 1) # Settled
               /\ Elems(Missed(Len(hist) - 1)) \subseteq Elems(hist[Len(hist)].rng)
        /\ hist[Len(hist)].err # "" => hist[Len(hist)].lines = LinesAfter(Len(hist) - 1)

\* C18, amended: Cache.update fails, changing no line, if its request is
\* not a superset of the request of the most recent missed read, or if an
\* update was accepted since that read; a cache just constructed or just
\* invalidated waits for the empty request, so that update is accepted
\* there with any request, although no read has missed.
C18_UpdateContract ==
    Updated =>
        /\ hist[Len(hist)].err = "" <=>
               /\ Awaited(Len(hist) - 1) # Settled
               /\ Elems(Awaited(Len(hist) - 1)) \subseteq Elems(hist[Len(hist)].rng)
        /\ hist[Len(hist)].err # "" => hist[Len(hist)].lines = LinesAfter(Len(hist) - 1)
        /\ hist[Len(hist)].err = "" =>
               \E i \in 1..Len(sets) : sets[i].range = hist[Len(hist)].rng

\* an update refused because its request does not cover the read that
\* missed just before
C18_RefusedAfterMiss ==
    /\ Updated /\ Len(hist) >= 2
    /\ hist[Len(hist)].err = "AssertionError"
    /\ hist[Len(hist) - 1].op = "read" /\ hist[Len(hist) - 1].kind = "CacheTimeout"

(*************************************************************************)
(* What the claim about transport failures is stated with.               *)
(*************************************************************************)
\* the transport reads of a call that raised
Raised(tlog) == {j \in 1..Len(tlog) : tlog[j][1] = "X"}

\* the lines that the sub-requests a call completed were served from or
\* filled
Served_slots(evs) == {evs[k].slot : k \in 1..Len(evs)}

\* C19, as stated: a transport read that fails during readBytes makes the
\* call fail with that error after that one attempt, no transport call
\* following it, and the failed sub-request installs or modifies no cache
\* line.
C19_FailedReadTouchesNoLine ==
    [][(last'.op = "read" /\ Raised(last'.tlog) # {}) =>
           /\ last'.err = "TransportError"
           /\ Raised(last'.tlog) = {Len(last'.tlog)}
           /\ \A i \in (1..Len(sets)) \ Served_slots(last'.events) : sets'[i] = sets[i]]_vars

\* C19, amended: a transport read that fails during readBytes makes the
\* call fail with that error after that one attempt, no transport call
\* following it, and the failed sub-request installs no line and changes
\* no line's range, buffer or lastupdate; only when the read that failed was
\* the re-fetch of the nocache part of a sub-request the cache had served,
\* the serving line's lastread has been refreshed (and the hit counted).
C19_FailedReadInstallsNoLine ==
    [][(last'.op = "read" /\ Raised(last'.tlog) # {}) =>
           /\ last'.err = "TransportError"
           /\ Raised(last'.tlog) = {Len(last'.tlog)}
           /\ \A i \in (1..Len(sets)) \ Served_slots(last'.events) :
                  /\ sets'[i] = [sets[i] EXCEPT !.lastread = sets'[i].lastread]
                  /\ sets'[i] # sets[i] =>
                         /\ sets'[i].lastread = now'
                         /\ last'.tlog[Len(last'.tlog)][2] \in
                                Elems(nocache) \cap Elems(sets[i].range)
           /\ nocache = <<>> =>
                  \A i \in (1..Len(sets)) \ Served_slots(last'.events) : sets'[i] = sets[i]]_vars

\* a call that failed on its second sub-request after its first had filled
\* a line
C19_FailedOnSecondLine ==
    /\ last.op = "read" /\ last.err = "TransportError"
    /\ Len(last.events) = 1 /\ last.events[1].kind = "CacheMiss"
    /\ Len(last.tlog) = 2 /\ last.tlog[2][1] = "X"
    /\ reads = last.before.reads + 1

\* both contexts' calls have returned or raised
AllDone == ctx # <<>> /\ \A t \in Contexts : ctx[t].pc = "done"

\* what two calls leave behind: the memory, the cache, the counters, the
\* clock, and what each call returned or raised
Outcome(h, rets, errs) ==
    [mem |-> h.mem, sets |-> h.sets, lru |-> h.lru, lastmiss |-> h.lastmiss,
     hits |-> h.hits, misses |-> h.misses, timeouts |-> h.timeouts,
     reads |-> h.reads, writes |-> h.writes, clock |-> h.clock,
     rets |-> rets, errs |-> errs]

\* one whole call c on the object h
Whole(h, c) ==
    IF c.op = "read"
    THEN readBytes(h, c.addr, c.size)
    ELSE [h |-> writeBytes(h, c.addr, c.data), data |-> <<>>]

\* the next call starts with no exception pending
Returned(h) == [h EXCEPT !.err = "", !.tlog = <<>>, !.events = <<>>]

\* the second of two whole calls, the first having left r1
Second(r1, c2) == Whole(Returned(r1.h), c2)

\* the outcome of the whole call of context a followed by that of b
InOrder(a, b, r1, r2) ==
    Outcome(r2.h,
            [t \in Contexts |-> IF t = a THEN r1.data ELSE r2.data],
            [t \in Contexts |-> IF t = a THEN r1.h.err ELSE r2.h.err])

Serial(a, b, r1) == InOrder(a, b, r1, Second(r1, ctx[b].call))

\* the outcomes of the two sequential orders of the contexts' calls
Serials ==
    {Serial(1, 2, Whole(Built(linebytes, Len(sets), ThreadLines), ctx[1].call)),
     Serial(2, 1, Whole(Built(linebytes, Len(sets), ThreadLines), ctx[2].call))}

\* the outcome the two contexts reached
Reached ==
    Outcome(Obj, [t \in Contexts |-> ctx[t].ret], [t \in Contexts |-> ctx[t].err])

C20_LockedBothMiss ==
    /\ AllDone /\ mutex = Free
    /\ misses = 2
    /\ Reached \in Serials

\* without the lock, a line fetched before the other context's write is
\* installed after it: the line holds bytes the memory no longer has, and
\* neither call raised
C20_StaleLineInstalled ==
    /\ AllDone /\ mutex = NoMutex
    /\ Reached \notin Serials
    /\ \A t \in Contexts : ctx[t].err = ""
    /\ \E i \in 1..Len(sets) :
           /\ sets[i].range # <<>>
           /\ \E a \in rmin(sets[i].range)..(rmin(sets[i].range) + span(sets[i].range) - 1) :
                  sets[i].data[a - rmin(sets[i].range) + 1] # mem[a + 1]

\* without the lock, the update of one context is refused because the
\* other context's miss replaced _lastmiss with a range of another line
C20_UnlockedAssertion ==
    /\ AllDone /\ mutex = NoMutex
    /\ Reached \notin Serials
    /\ \E t \in Contexts : ctx[t].err = "AssertionError"

\* the normal form of _ranges: an even number of boundaries, each greater
\* than the one before
Normal(r) == even(Len(r)) /\ \A k \in 1..(Len(r) - 1) : r[k] < r[k + 1]

\* the SparseRange the last call acted on, before and after, and the other
Target == fin[fout.i]

TargetWas == fout.was[fout.i]

OtherWas == fout.was[3 - fout.i]

\* C21: after any sequence of addrange, discardrange, add, discard, union,
\* difference and intersection, the boundary sequence of each SparseRange
\* is strictly increasing and of even length: no stored range is empty and
\* no two stored ranges touch or overlap.
C21_NormalForm == Normal(fin[1]) /\ Normal(fin[2])

\* a discardrange cut one range in two, and an addrange joined two ranges
C21_RangeCutInTwo ==
    /\ fout.op = "discardrange"
    /\ Len(TargetWas) = 4
    /\ Len(Target) = 6

\* C22: S | T equals T | S, whichever operand is copied and whichever has
\* its ranges added one by one.
C22_UnionCommutes == fout.op = "or" => Target = ior(OtherWas, TargetWas)

\* a union of two different SparseRanges of two ranges each, which overlap
C22_OverlappingUnion ==
    /\ fout.op = "or"
    /\ Len(TargetWas) = 4 /\ Len(OtherWas) = 4
    /\ Target # TargetWas /\ Target # OtherWas
    /\ Elems(TargetWas) \cap Elems(OtherWas) # {}

\* C23: (S & T) | (S - T) equals S.
C23_Recompose == fout.op = "and" => ior(Target, isub(TargetWas, OtherWas)) = TargetWas

\* an intersection that kept part of S and dropped part of it, S of two
\* ranges
C23_ProperParts ==
    /\ fout.op = "and"
    /\ Len(TargetWas) = 4
    /\ Target # <<>> /\ Target # TargetWas
    /\ Len(isub(TargetWas, OtherWas)) = 4

\* C26: addrange(a, b) and discardrange(a, b) with a >= b leave the
\* SparseRange as it was.
C26_NullRangeNoOp ==
    fout.op \in {"addrange", "discardrange"} /\ fout.a >= fout.b => fin = fout.was

\* an inverted discardrange over addresses the SparseRange holds
C26_InvertedOverHeld ==
    /\ fout.op = "discardrange"
    /\ fout.a > fout.b
    /\ fout.b \in Elems(Target) /\ (fout.a - 1) \in Elems(Target)

\* the text of a SparseRange holds a dash only inside a range of more than
\* one element
BareSingles ==
    \A k \in 1..Len(pairs(fin)) :
        pairs(fin)[k][2] - pairs(fin)[k][1] = 1 /\ pairs(fin)[k][1] >= 0 =>
            \E t \in 1..Len(str_split(fout.text, ",", 1, <<>>)) :
                lstrip(str_split(fout.text, ",", 1, <<>>)[t]) = str_int(pairs(fin)[k][1])

\* C24: for every normalized SparseRange S, the empty one and those with
\* single-element ranges included, the constructor given str(S) returns a
\* SparseRange equal to S, and str(S) writes every single-element range as
\* a bare integer.
C24_LiteralRoundTrip ==
    fout.step = "parsed" => fout.err = "" /\ fout.val = fin /\ BareSingles

\* the round trip of the SparseRanges that hold something and nothing
\* below 0
C24_HeldRoundTrip ==
    fout.step = "parsed" /\ fin # <<>> /\ fin[1] >= 0 =>
        fout.err = "" /\ fout.val = fin /\ BareSingles

\* a round trip through a text with a single element, a range and a number
\* of two digits
C24_TwoDigitRoundTrip ==
    /\ fout.step = "parsed" /\ fout.err = "" /\ fout.val = fin
    /\ fout.text = <<"3", ",", " ", "9", "-", "1", "1">>

\* the text of the empty SparseRange is refused
C24_EmptyRefused ==
    fout.step = "parsed" /\ fin = <<>> /\ fout.text = <<>> /\ fout.err = "ValueError"

\* the elements part i of a split should hold: those from the split point
\* before it up to the split point after it
Between(i) ==
    {n \in Elems(fin.s) :
        /\ i > 1 => fin.points[i - 1] <= n
        /\ i <= Len(fin.points) => n < fin.points[i]}

\* the parts are those of the split points
Partitioned ==
    /\ fout.err = ""
    /\ Len(fout.parts) = Len(fin.points) + 1
    /\ \A i \in 1..Len(fout.parts) : Elems(fout.parts[i]) = Between(i)

\* C25: for any SparseRange S and ascending split points p1 < ... < pk,
\* split yields exactly k+1 SparseRanges in order, part i holding exactly
\* the elements n of S with p(i-1) <= n < p(i); they are pairwise disjoint
\* and their union is S, empty parts included.
C25_SplitPartitions == fout.step = "split" => Partitioned

\* split partitions every SparseRange that holds something
C25_HeldSplit ==
    fout.step = "split" /\ fin.s # <<>> =>
        Partitioned /\ \A i \in 1..Len(fout.parts) : Normal(fout.parts[i])

\* a split with an empty part in the middle and a point past the end
C25_EmptyPartInside ==
    /\ fout.step = "split" /\ fout.err = ""
    /\ Len(fout.parts) = 4
    /\ fout.parts[1] # <<>> /\ fout.parts[2] = <<>> /\ fout.parts[3] # <<>>
    /\ fout.parts[4] = <<>>

\* the split of the empty SparseRange raises
C25_EmptyRaises ==
    fout.step = "split" /\ fin.s = <<>> /\ fin.points # <<>> /\ fout.err = "TypeError"

\* C27: in every state reached by readBytes, writeBytes, invalidate and
\* timeout changes, every CacheLine with a non-empty range has a buffer as
\* long as its range spans.
C27_BufferSpansRange ==
    \A i \in 1..Len(sets) : sets[i].range # <<>> => Len(sets[i].data) = span(sets[i].range)

\* a write has patched a line that spans more than linebytes: the line
\* holds the bytes written
C27_LongLinePatched ==
    /\ last.op = "write"
    /\ \E i \in 1..Len(sets) :
           /\ span(sets[i].range) > linebytes
           /\ Len(sets[i].data) = span(sets[i].range)
           /\ sets[i].data # PySlice(InitMem(linebytes, MemLines), rmin(sets[i].range),
                                     rmin(sets[i].range) + span(sets[i].range))

\* a line cut short of linebytes by noprefetch
C27_ShortLine ==
    \E i \in 1..Len(sets) :
        sets[i].range # <<>> /\ span(sets[i].range) < linebytes

\* the lines that covered the range of the last call before it
Covering == {i \in 1..Len(fout.was) : Elems(fout.rng) \subseteq Elems(fout.was[i].range)}

\* the byte line holds for address a
ByteAt(line, a) == line.data[a - rmin(line.range) + 1]

\* line i holds the data of the last call at the addresses of its range
Patched(i) ==
    \A a \in Elems(fout.rng) : ByteAt(sets[i], a) = fout.data[a - rmin(fout.rng) + 1]

\* C28: for every timeout setting (None, TimeoutSecs with the line fresh or
\* expired, 0), if some line's range is a superset of request,
\* Cache.write(request, data) overwrites the bytes of that line's buffer
\* at request's addresses with data.
C28_WritePatchesCovering ==
    fout.op = "write" /\ Covering # {} => \E i \in Covering : Patched(i)

\* Cache.write patches the covering line that Cache.search finds: with a
\* timeout other than 0, the first covering line, when it has not expired
C28_WritePatchesFresh ==
    /\ fout.op = "write" /\ Covering # {}
    /\ timeout # 0
    /\ \E i \in Covering :
           /\ \A j \in Covering : i <= j
           /\ ~expired(fout.was[i], now)
    => \E i \in Covering : Patched(i)

\* a write under timeout = 0 left a covering line as it was
C28_DisabledNotPatched ==
    /\ fout.op = "write" /\ timeout = 0
    /\ Covering # {}
    /\ sets = fout.was
    /\ \A i \in Covering : ~Patched(i)

\* a write left a covering line that had expired as it was
C28_ExpiredNotPatched ==
    /\ fout.op = "write" /\ timeout = TimeoutSecs
    /\ Covering # {}
    /\ sets = fout.was
    /\ \A i \in Covering : ~Patched(i)

\* C29: Cache.write never changes any line's range, lastRead or
\* lastUpdate, never changes a byte of a line outside request's addresses,
\* and when no line's range is a superset of request it changes no line's
\* buffer at all.
C29_WriteFrame ==
    fout.op = "write" =>
        /\ \A i \in 1..Len(sets) :
               /\ sets[i].range = fout.was[i].range
               /\ sets[i].lastread = fout.was[i].lastread
               /\ sets[i].lastupdate = fout.was[i].lastupdate
               /\ Len(sets[i].data) = Len(fout.was[i].data)
               /\ \A k \in 1..Len(sets[i].data) :
                      sets[i].data[k] # fout.was[i].data[k] =>
                          /\ i \in Covering
                          /\ (k - 1 + rmin(sets[i].range)) \in Elems(fout.rng)
        /\ Covering = {} => sets = fout.was

\* a write of one byte changed the first byte of a line of two and left
\* the second
C29_PatchedInside ==
    /\ fout.op = "write"
    /\ \E i \in Covering :
           /\ span(sets[i].range) = 2 /\ span(fout.rng) = 1
           /\ sets[i].data[1] # fout.was[i].data[1]
           /\ sets[i].data[2] = fout.was[i].data[2]

\* C30 as stated: CacheLine.hit(request) is true if and only if every
\* address of request is in the line's range, a request that only partly
\* overlaps the line is a miss, and any request against an invalidated
\* (empty-range) line is a miss.
C30_HitIffCoveredAndHeld ==
    fout.step = "hit" =>
        /\ fout.val <=> Elems(fin.request) \subseteq Elems(fin.range)
        /\ fin.range = <<>> => ~fout.val

\* C30: CacheLine.hit(request) is true if and only if every address of
\* request is in the line's range: a partial overlap is a miss, and so is
\* any request that holds an address against an invalidated line; the
\* empty request hits every line.
C30_HitIffCovered ==
    fout.step = "hit" => (fout.val <=> Elems(fin.request) \subseteq Elems(fin.range))

\* a miss of a request that overlaps the line's range in part
C30_PartialOverlapMisses ==
    /\ fout.step = "hit" /\ ~fout.val
    /\ Elems(fin.request) \cap Elems(fin.range) # {}
    /\ Len(fin.request) = 2

\* the empty request hits an invalidated line
C30_EmptyHitsInvalidated ==
    fout.step = "hit" /\ fout.val /\ fin.range = <<>> /\ fin.request = <<>>

(*************************************************************************)
(* What the claim about the fetch of a missed line is stated with.       *)
(*************************************************************************)
\* the maximal contiguous run of the set S that holds a
RunOf(S, a) == {b \in S : \A c \in Min(a, b)..Max(a, b) : c \in S}
SetRuns(S) == {RunOf(S, a) : a \in S}

\* the lowest and the highest address of a non-empty set
Lowest(S) == CHOOSE a \in S : \A b \in S : a <= b
Highest(S) == CHOOSE a \in S : \A b \in S : a >= b

\* the aligned line of the last read less noprefetch, with the addresses
\* asked for
Desired == (AlignedLine \ Elems(noprefetch)) \cup Asked

\* the runs of Desired that lie below the run r
RunsBelow(r) == {p \in SetRuns(Desired) : Highest(p) < Lowest(r)}

\* the run of Desired next below r
RunBefore(r) == CHOOSE p \in RunsBelow(r) : \A q \in RunsBelow(r) : Highest(q) <= Highest(p)

\* the transport reads of the last call, as sets of addresses in the order
\* they were issued
ReadRuns == [i \in 1..Len(last.tlog) |-> last.tlog[i][2]..(last.tlog[i][2] + last.tlog[i][3] - 1)]

\* one read for each maximal run of the addresses fetched, lowest first
OneReadPerRun ==
    /\ \A i \in 1..Len(last.tlog) : last.tlog[i][1] = "R"
    /\ {ReadRuns[i] : i \in 1..Len(ReadRuns)} = SetRuns(Fetched(last.tlog))
    /\ \A i \in 1..(Len(ReadRuns) - 1) : Highest(ReadRuns[i]) < Lowest(ReadRuns[i + 1])

\* the buffer handed to Cache.update: each fetched byte at (address -
\* lowest fetched address), a zero wherever nothing was fetched
BufferLaidOut ==
    \E line \in {sets[last.events[1].slot]} :
    \E F \in {Fetched(last.tlog)} :
        /\ Len(line.data) = Highest(F) - Lowest(F) + 1
        /\ \A a \in Lowest(F)..Highest(F) :
               line.data[a - Lowest(F) + 1] = IF a \in F THEN mem[a + 1] ELSE 0

Holders(ls, rng) == {i \in 1..Len(ls) : line_hit(ls[i], rng)}

\* C32: when a read finds a covering line whose lastUpdate age exceeds
\* timeout, the Cache.update that follows overwrites that same line (not
\* the least-recently-read one), so every other line stays cached and
\* exactly one line covers the re-fetched range afterwards.
C32_TimedOutReplacedInPlace ==
    [][(timeouts' = timeouts + 1 /\ last'.err = "") =>
          \E e \in {last'.events[1]} :
              /\ e.slot \in Holders(sets, e.req)
              /\ expired(sets[e.slot], now')
              /\ sets'[e.slot].lastupdate = now'
              /\ \A i \in 1..Len(sets) : i # e.slot => sets'[i] = sets[i]
              /\ Holders(sets', sets'[e.slot].range) = {e.slot}]_vars

\* the last call on the Cache was a read or a write whose search found no
\* covering line, with caching not disabled: the search ended in a Miss
SearchMissed ==
    /\ fout.op \in {"read", "write"}
    /\ timeout # 0
    /\ Holders(fout.was, fout.rng) = {}

\* C33 (victim selection): whenever Cache.search ends in a Miss with
\* timeout not Disabled, the LRU candidate it leaves (the line the following
\* Cache.update overwrites) has the smallest lastRead of all N lines,
\* whatever searches, hits, writes and updates came before.
C33_VictimIsLeastRecentlyRead ==
    SearchMissed => \A i \in 1..Len(sets) : sets[lru].lastread <= sets[i].lastread

\* a Miss, after a line had been filled, that moved the candidate off the
\* last line to a line read earlier than it
C33_VictimMoved ==
    /\ SearchMissed /\ fout.op = "read"
    /\ lru # Len(sets)
    /\ sets[lru].lastread < sets[Len(sets)].lastread

\* the addresses a <= n < b of the last call
Spliced == fout.a..(fout.b - 1)

\* the addresses "n in S" answers yes for, among those near the bounds
Members(r) == {n \in -1..(MaxAddr + 1) : contains(r, n)}

\* C34 (range splice matches set semantics): for every normalized
\* SparseRange S and all a < b, after addrange(a, b) the set contains n iff
\* n was in S or a <= n < b, and after discardrange(a, b) it contains n iff
\* n was in S and not a <= n < b, wherever a and b fall: inside a range,
\* in a gap, or on an existing start or end boundary.
C34_SpliceIsSetOperation ==
    fout.a < fout.b =>
        /\ fout.op \in {"addrange", "add"} =>
               /\ Members(Target) = Members(TargetWas) \cup Spliced
               /\ Elems(Target) = Members(Target)
        /\ fout.op \in {"discardrange", "discard"} =>
               /\ Members(Target) = Members(TargetWas) \ Spliced
               /\ Elems(Target) = Members(Target)

\* a discardrange from inside one range up to the start of the next
C34_CutFromInsideToBoundary ==
    /\ fout.op = "discardrange" /\ Len(TargetWas) = 4
    /\ TargetWas[1] < fout.a /\ fout.a < TargetWas[2]
    /\ fout.b = TargetWas[3]
    /\ Target = <<TargetWas[1], fout.a, TargetWas[3], TargetWas[4]>>

\* an addrange from the end of one range to inside the next
C34_JoinedFromBoundary ==
    /\ fout.op = "addrange" /\ Len(TargetWas) = 4
    /\ fout.a = TargetWas[2]
    /\ TargetWas[3] < fout.b /\ fout.b < TargetWas[4]
    /\ Target = <<TargetWas[1], TargetWas[4]>>

\* the kinds of the sub-requests of the call that ends in the next state
KindsNext == {last'.events[k].kind : k \in 1..Len(last'.events)}

\* C35 (nocache reads leave cached lines untouched): a read whose
\* sub-requests lie wholly inside nocache changes no line's range, buffer
\* or timestamps, no LRU candidate and no counter; and when a cache hit is
\* partly inside nocache, the bytes re-fetched from the Transport go only
\* into the returned result: the hit line's buffer and range, and every
\* other line, stay as they were.
C35_NoCacheReadsLeaveLines ==
    [][(last'.op = "read" /\ last'.err = "" /\ last'.events # <<>>) =>
          /\ (last'.addr..(last'.addr + last'.size - 1)) \subseteq Elems(nocache) =>
                 /\ KindsNext = {"direct"}
                 /\ sets' = sets /\ lru' = lru /\ lastmiss' = lastmiss
                 /\ hits' = hits /\ misses' = misses /\ timeouts' = timeouts
          /\ KindsNext \subseteq {"direct", "hit"} =>
                 \A i \in 1..Len(sets) :
                     /\ sets'[i].data = sets[i].data
                     /\ sets'[i].range = sets[i].range
                     /\ sets'[i].lastupdate = sets[i].lastupdate]_vars

\* a read served by a line, partly in nocache, whose result differs from
\* the line's buffer at a nocache address
C35_ResultNotInBuffer ==
    /\ last.op = "read" /\ last.err = ""
    /\ Len(last.events) = 1 /\ last.events[1].kind = "hit"
    /\ \E a \in Asked \cap Elems(nocache) :
           last.ret[a - last.addr + 1] # ByteAt(sets[last.events[1].slot], a)

\* a read wholly in nocache, made while a line held the addresses read
C35_DirectOverHeld ==
    /\ last.op = "read" /\ last.err = ""
    /\ Len(last.events) = 1 /\ last.events[1].kind = "direct"
    /\ Holders(sets, addrange(<<>>, last.addr, last.addr + last.size)) # {}

\* C36 (coherence under runtime timeout changes): when the owner changes
\* timeout between None, a number of seconds and 0 at any points of a
\* sequence of readBytes and writeBytes calls, the Transport changed only
\* through this handler, no readBytes returns bytes that differ from what
\* the Transport holds: a write made while caching is disabled, or while
\* the covering line is expired, is never served stale afterwards.
C36_CoherentUnderRetime ==
    (last.op = "read" /\ last.err = "") =>
        \A a \in Asked : last.ret[a - last.addr + 1] = mem[a + 1]

\* C37 (no duplicate coverage): in every reachable state, after any
\* sequence of readBytes, writeBytes, invalidate and timeout changes, no
\* address is covered by the ranges of two different valid cache lines.
C37_NoDuplicateCoverage ==
    \A i, j \in 1..Len(sets) :
        i # j => Elems(sets[i].range) \cap Elems(sets[j].range) = {}

\* C38 (shape of a cached line): in every reachable state, for every
\* request and every noprefetch set, each valid cache line's range is a
\* single contiguous range that lies inside one linebytes-aligned line
\* (span at most linebytes), and the line a miss filled contains the
\* sub-request whose miss caused it to be fetched.
C38_LineShape ==
    /\ \A i \in 1..Len(sets) :
           sets[i].range # <<>> =>
               /\ Len(sets[i].range) = 2
               /\ span(sets[i].range) <= linebytes
               /\ rmin(sets[i].range) \div linebytes = rmax(sets[i].range) \div linebytes
    /\ Filled => Asked \subseteq FilledRange

\* C39 (assertions hold inside readBytes): for every addr, size, nocache
\* set, noprefetch set and cache state, readBytes calls Cache.update with a
\* range that is a superset of the lastMiss just recorded and with data as
\* long as that range spans, and the splice target is large enough: no
\* readBytes ends in a contract violation while the Transport returns the
\* bytes asked of it, and it returns size bytes.
C39_NoContractViolation ==
    last.op = "read" =>
        /\ last.err = ""
        /\ Len(last.ret) = last.size
        /\ Filled => /\ Asked \subseteq FilledRange
                     /\ Len(sets[last.events[1].slot].data)
                            = span(sets[last.events[1].slot].range)

\* a read served by a line and re-fetched in part: the bytes read again
\* were spliced in after the first byte of the result
C39_SplicedPastStart ==
    /\ last.op = "read" /\ last.err = ""
    /\ Len(last.events) = 1 /\ last.events[1].kind = "hit"
    /\ Len(last.tlog) = 1 /\ last.tlog[1][2] > last.addr

\* a miss whose fetch noprefetch cut short of the aligned line
C39_UpdatedWithCutLine ==
    /\ Filled
    /\ span(sets[last.events[1].slot].range) < linebytes
    /\ AlignedLine \cap Elems(noprefetch) # {}

\* the lines hold, for every address of the transport in their range, the
\* byte the transport holds
LinesAgree ==
    \A i \in 1..Len(sets) :
        \A a \in Elems(sets[i].range) \cap Addrs : ByteAt(sets[i], a) = mem[a + 1]

\* C40 (a failed write does not poison the cache): if Transport.writeBytes
\* fails for a sub-write, the cache is not left holding bytes that the
\* Transport does not hold, so a later readBytes of that range returns the
\* Transport's actual contents.
C40_FailedWriteNoPoison ==
    /\ (last.op = "write" /\ last.err = "TransportError") => LinesAgree
    /\ (last.op = "read" /\ last.err = "") =>
           last.ret = PySlice(mem, last.addr, last.addr + last.size)

=============================================================================
